---- MODULE Spec2Model ----
(***************************************************************************)
(* Session-creation orchestration and recency cache of the onboarding API. *)
(*                                                                         *)
(* The model follows OnboardingService.createSession from one external     *)
(* call to the next: the durable INSERT, the scoring call, the durable     *)
(* UPDATE and the three Redis commands that addRecentSession queues in an  *)
(* ioredis pipeline (LPUSH, LTRIM, EXPIRE).  Requests interleave at those  *)
(* calls; the PostgreSQL table and the Redis keys are the shared state.    *)
(* A pipeline is not a transaction: the server executes its commands one   *)
(* by one, commands of other connections may run in between, and every     *)
(* command reports its own error, which exec() returns without rejecting.  *)
(***************************************************************************)
EXTENDS Integers, Sequences, FiniteSets, TLC

(* ---------------------------- bounds ----------------------------------- *)
\* number of request slots (requests that may be in flight together)
MaxReq == 2
\* number of clock ticks the model lets pass
MaxTicks == 2
\* starts of the process
MaxRuns == 3

(* ----------------------- program constants ----------------------------- *)
recentSessionsLimit == 10
recentSessionsTtl == 86400

\* one clock tick is as long as the time to live
TickStep == recentSessionsTtl

Req == 1..MaxReq
Users == {"u1", "u2"}
NewIds == (recentSessionsLimit + 1)..(recentSessionsLimit + MaxReq)

\* JavaScript values that change type at run time (score, scoreExplanation)
Null == <<"null">>
Num(n) == <<"number", n>>
Str(t) == <<"string", t>>
IsNum(v) == Len(v) = 2 /\ v[1] = "number"

Min(a, b) == IF a < b THEN a ELSE b

(* ------------------------- conversions --------------------------------- *)
\* Date.prototype.toISOString: the instant as text
ToISOString(t) == <<"iso", t>>

\* JSON.stringify of a RecentSessionSummary: the members in insertion order
JsonStringify(s) == <<<<"id", s.id>>, <<"createdAt", s.createdAt>>, <<"score", s.score>>>>

\* JSON.parse of a stored summary
JsonParse(j) == [id |-> j[1][2], createdAt |-> j[2][2], score |-> j[3][2]]

(* ------------------------ request payloads ----------------------------- *)
\* the other JavaScript values a payload is made of: undefined, an object
\* (its members, by key) and an array
Undefined == <<"undefined">>
Obj(m) == <<"object", m>>
Arr(a) == <<"array", a>>
IsStr(v) == v[1] = "string"
IsObject(v) == v[1] = "object"
IsArray(v) == v[1] = "array"

\* o.k: undefined when o has no member k or is not an object
Get(o, k) == IF IsObject(o) /\ k \in DOMAIN o[2] THEN o[2][k] ELSE Undefined

\* the truth value JavaScript gives v in a condition
Truthy(v) ==
    CASE v[1] = "undefined" -> FALSE
      [] v[1] = "null" -> FALSE
      [] v[1] = "number" -> v[2] # 0
      [] v[1] = "string" -> v[2] # ""
      [] OTHER -> TRUE

\* v || null
OrNull(v) == IF Truthy(v) THEN v ELSE Null

\* what JSON keeps of a value: a member whose value is undefined is left
\* out, an undefined array element becomes null
RECURSIVE DropUndefined(_)
DropUndefined(v) ==
    IF IsObject(v)
    THEN Obj([k \in {k \in DOMAIN v[2] : v[2][k] # Undefined} |-> DropUndefined(v[2][k])])
    ELSE IF IsArray(v)
    THEN Arr([i \in DOMAIN v[2] |->
                 IF v[2][i] = Undefined THEN Null ELSE DropUndefined(v[2][i])])
    ELSE v

\* JSON.stringify of a payload value, and the value PostgreSQL's JSONB and
\* the driver give back for that text
JsonStringifyValue(v) == <<"json", DropUndefined(v)>>
JsonParseValue(t) == t[2]

PersonalInfoFields == {"age", "income", "employment", "education"}
PreferencesFields == {"riskTolerance", "investmentGoals", "timeHorizon"}

\* { f1: o.f1, f2: o.f2, ... }: every field becomes a member, undefined
\* when o has none
CopyFields(o, fields) == Obj([f \in fields |-> Get(o, f)])

\* ParseRawInput as it would be if it kept each section as it came
ParseRawInputWholeSections(rawInput) ==
    LET sections == {k \in {"personalInfo", "preferences", "flags"} :
                        Truthy(Get(rawInput, k))}
    IN  Obj([k \in sections |->
               IF k \in {"personalInfo", "preferences"}
               THEN Get(rawInput, k)
               ELSE IF IsArray(Get(rawInput, k)) THEN Get(rawInput, k) ELSE Arr(<<>>)])

ParseRawInputFlagsNonEmpty(rawInput) ==
    LET sections == {k \in {"personalInfo", "preferences", "flags"} :
                        /\ Truthy(Get(rawInput, k))
                        /\ k = "flags" => Get(rawInput, k) # Arr(<<>>)}
    IN  Obj([k \in sections |->
               IF k = "personalInfo"
               THEN CopyFields(Get(rawInput, k), PersonalInfoFields)
               ELSE IF k = "preferences"
               THEN CopyFields(Get(rawInput, k), PreferencesFields)
               ELSE IF IsArray(Get(rawInput, k)) THEN Get(rawInput, k) ELSE Arr(<<>>)])

\* OnboardingService.parseRawInput
ParseRawInput(rawInput) ==
    LET sections == {k \in {"personalInfo", "preferences", "flags"} :
                        Truthy(Get(rawInput, k))}
    IN  Obj([k \in sections |->
               IF k = "personalInfo"
               THEN CopyFields(Get(rawInput, k), PersonalInfoFields)
               ELSE IF k = "preferences"
               THEN CopyFields(Get(rawInput, k), PreferencesFields)
               ELSE IF IsArray(Get(rawInput, k)) THEN Get(rawInput, k) ELSE Arr(<<>>)])

\* values of rawInput that parseRawInput, which takes `any`, may be given:
\* personalInfo and preferences absent, well formed, or of another type,
\* with and without members the function does not know; flags as
\* rawInputSchema lets it through to the only caller (z.array(z.string())
\* .optional()): absent or a sequence of strings, the empty one included
Absent == <<"absent">>
PersonalInfoValues ==
    { Absent, Null, Obj(<<>>), Str("n/a"),
      Obj([age |-> Num(30)]),
      Obj([age |-> Num(30), income |-> Num(75000), nickname |-> Str("x")]) }
PreferencesValues ==
    { Absent,
      Obj([riskTolerance |-> Str("low")]),
      Obj([riskTolerance |-> Str("low"), investmentGoals |-> Arr(<<Str("growth")>>),
           theme |-> Str("dark")]) }
FlagsValues ==
    { Absent, Arr(<<>>), Arr(<<Str("vip")>>), Arr(<<Str("vip"), Str("risk")>>) }
ExtraValues == {Absent, Str("x")}
RawInputOf(p, q, f, e) ==
    LET all == [personalInfo |-> p, preferences |-> q, flags |-> f, extra |-> e]
    IN  Obj([k \in {k \in DOMAIN all : all[k] # Absent} |-> all[k]])
RawInputs ==
    { RawInputOf(p, q, f, e) : p \in PersonalInfoValues, q \in PreferencesValues,
                               f \in FlagsValues, e \in ExtraValues }

(* ------------------------ request validation --------------------------- *)
\* identifiers as text: a sequence of characters
HexDigits == {"0", "1", "2", "3", "4", "5", "6", "7", "8", "9",
              "a", "b", "c", "d", "e", "f", "A", "B", "C", "D", "E", "F"}
UuidLength == 36
DashPositions == {9, 14, 19, 24}

\* /^[0-9a-f]{8}-[0-9a-f]{4}-[0-9a-f]{4}-[0-9a-f]{4}-[0-9a-f]{12}$/i, the
\* shape the controller tests user_id against and z.string().uuid() accepts
MatchesUuid(t) ==
    /\ Len(t) = UuidLength
    /\ \A i \in 1..UuidLength :
         IF i \in DashPositions THEN t[i] = "-" ELSE t[i] \in HexDigits

\* the identifiers of the two users, as text
UserIdText(u) ==
    IF u = "u1"
    THEN <<"1", "2", "3", "e", "4", "5", "6", "7", "-", "e", "8", "9", "b", "-",
           "1", "2", "d", "3", "-", "a", "4", "5", "6", "-",
           "4", "2", "6", "6", "1", "4", "1", "7", "4", "0", "0", "0">>
    ELSE <<"4", "5", "6", "e", "7", "8", "9", "0", "-", "e", "8", "9", "b", "-",
           "1", "2", "d", "3", "-", "a", "4", "5", "6", "-",
           "4", "2", "6", "6", "1", "4", "1", "7", "4", "0", "0", "1">>

\* texts that are no UUID: 'invalid-uuid', and a text of the right length
\* and dashes with a letter that is no hexadecimal digit
InvalidUuid == <<"i", "n", "v", "a", "l", "i", "d", "-", "u", "u", "i", "d">>
NonHexUuid == [UserIdText("u1") EXCEPT ![1] = "g"]
MalformedIds == {InvalidUuid, NonHexUuid}

Employments == {"full-time", "part-time", "unemployed", "self-employed", "retired"}
Educations == {"high-school", "bachelors", "masters", "phd", "other"}
RiskTolerances == {"low", "moderate", "high"}
TimeHorizons == {"short", "medium", "long"}
MinAge == 18
MaxAge == 100

IsStringArray(v) == IsArray(v) /\ \A i \in DOMAIN v[2] : IsStr(v[2][i])

\* whether value v satisfies the schema of member k of rawInputSchema's
\* personalInfo or preferences; every member is optional
MemberOk(k, v) ==
    \/ v = Undefined
    \/ CASE k = "age" -> IsNum(v) /\ v[2] >= MinAge /\ v[2] <= MaxAge
         [] k = "income" -> IsNum(v) /\ v[2] >= 0
         [] k = "employment" -> IsStr(v) /\ v[2] \in Employments
         [] k = "education" -> IsStr(v) /\ v[2] \in Educations
         [] k = "riskTolerance" -> IsStr(v) /\ v[2] \in RiskTolerances
         [] k = "investmentGoals" -> IsStringArray(v)
         [] k = "timeHorizon" -> IsStr(v) /\ v[2] \in TimeHorizons
         [] OTHER -> TRUE

\* the paths of the issues zod reports for z.array(z.string()).optional()
\* at the given path: the array itself when the value is no array, and
\* otherwise every element that is no string, by its index from 0
ArrayIssues(path, v) ==
    IF v = Undefined THEN {}
    ELSE IF ~IsArray(v) THEN {path}
    ELSE {Append(path, i - 1) : i \in {i \in DOMAIN v[2] : ~IsStr(v[2][i])}}

\* the paths of the issues zod reports for member k of a section
MemberIssues(path, k, v) ==
    IF k = "investmentGoals" THEN ArrayIssues(Append(path, k), v)
    ELSE IF MemberOk(k, v) THEN {}
    ELSE {Append(path, k)}

\* the paths of the issues zod reports for an optional object section
SectionIssues(raw, section, fields) ==
    LET o == Get(raw, section)
    IN  IF o = Undefined THEN {}
        ELSE IF ~IsObject(o) THEN {<<"rawInput", section>>}
        ELSE UNION {MemberIssues(<<"rawInput", section>>, k, Get(o, k)) : k \in fields}

\* the paths of the issues createOnboardingRequestSchema.parse reports for a
\* request body; the body is accepted when there is none
SchemaIssues(body) ==
    (IF MatchesUuid(body.userId) THEN {} ELSE {<<"userId">>})
    \cup (IF ~IsObject(body.rawInput) THEN {<<"rawInput">>}
          ELSE SectionIssues(body.rawInput, "personalInfo", PersonalInfoFields)
               \cup SectionIssues(body.rawInput, "preferences", PreferencesFields)
               \cup ArrayIssues(<<"rawInput", "flags">>, Get(body.rawInput, "flags")))

\* a z.object without passthrough keeps the members its schema names
Strip(o, fields) == Obj([k \in (DOMAIN o[2]) \cap fields |-> o[2][k]])

\* the rawInput that parse hands on: unknown members are kept at the top
\* level (passthrough) and stripped inside personalInfo and preferences
ParsedRawInput(raw) ==
    Obj([k \in DOMAIN raw[2] |->
           IF k = "personalInfo" THEN Strip(raw[2][k], PersonalInfoFields)
           ELSE IF k = "preferences" THEN Strip(raw[2][k], PreferencesFields)
           ELSE raw[2][k]])

\* the user whose identifier is the text t
UserOf(t) == CHOOSE u \in Users : UserIdText(u) = t

\* payloads: one with a partly filled personalInfo, an unknown member inside
\* it and one at the top level; one with preferences only; one below MinAge
RawInputA ==
    Obj([personalInfo |-> Obj([age |-> Num(30), nickname |-> Str("al")]),
         flags |-> Arr(<<Str("vip")>>),
         referrer |-> Str("ad")])
RawInputB == Obj([preferences |-> Obj([riskTolerance |-> Str("low")])])
RawInputUnderage == Obj([personalInfo |-> Obj([age |-> Num(17)])])

\* POST /v1/onboarding requests: the body, req.ip and the User-Agent header
CreateRequests ==
    { [userId |-> UserIdText("u1"), rawInput |-> RawInputA,
       ip |-> Str("10.0.0.1"), userAgent |-> Str("jest")],
      [userId |-> UserIdText("u2"), rawInput |-> RawInputB,
       ip |-> Str("10.0.0.2"), userAgent |-> Undefined],
      [userId |-> InvalidUuid, rawInput |-> Obj(<<>>),
       ip |-> Str("10.0.0.1"), userAgent |-> Str("jest")],
      [userId |-> UserIdText("u1"), rawInput |-> RawInputUnderage,
       ip |-> Str("10.0.0.1"), userAgent |-> Str("jest")] }

\* the user_id parameters of GET /v1/onboarding/recent/:user_id
UserIdParams == {UserIdText(u) : u \in Users} \cup MalformedIds

(* ------------------------- scoring engine ------------------------------ *)
\* bodies the engine may send with status 200; getScore returns response.data
\* as it is, so a body outside the contract reaches the caller unchanged
EngineAnswers ==
    { [score |-> Num(78),  explanation |-> Str("e1")],
      [score |-> Num(101), explanation |-> Str("e1")],
      [score |-> Null,     explanation |-> Str("e1")] }

\* ways the HTTP exchange may fail inside axios.post, named by the code of
\* the AxiosError or by the status of the response: the connection is
\* refused, the socket times out while connecting, the `timeout` of the
\* request elapses (axios rejects with code ECONNABORTED), the engine
\* answers 401, the engine answers 500
TransportFailures == {"ECONNREFUSED", "ETIMEDOUT", "ECONNABORTED", "HTTP401", "HTTP500"}

\* ClassifyScoreError as it would be without the test of the status
ClassifyScoreErrorNoStatus(f) ==
    IF f \in {"ECONNREFUSED", "ETIMEDOUT"} THEN "SCORER_UNREACHABLE"
    ELSE "SCORER_ERROR"

\* the Error that getScore throws for a failed exchange
ClassifyScoreError(f) ==
    IF f \in {"ECONNREFUSED", "ETIMEDOUT"} THEN "SCORER_UNREACHABLE"
    ELSE IF f = "HTTP401" THEN "SCORER_UNAUTHORIZED"
    ELSE "SCORER_ERROR"

\* what axios.post may meet: a 200 response with some body, or a failure
NoFailure == "none"
ResponseBodies ==
    {Obj(a) : a \in EngineAnswers}
        \cup { Obj([score |-> Num(0), explanation |-> Str("")]),
               Obj([score |-> Num(100), explanation |-> Str("e1")]),
               Obj([score |-> Num(0 - 1), explanation |-> Str("e1")]),
               Obj([score |-> Str("78"), explanation |-> Str("e1")]),
               Obj([score |-> Num(78)]),
               Obj([score |-> Num(78), explanation |-> Num(1)]),
               Obj(<<>>),
               Str("<html>"),
               Null }
Exchanges ==
    {[failure |-> NoFailure, data |-> d] : d \in ResponseBodies}
        \cup {[failure |-> f, data |-> Undefined] : f \in TransportFailures}

Returned(v) == [ok |-> TRUE, value |-> v, error |-> ""]
Thrown(message) == [ok |-> FALSE, value |-> Undefined, error |-> message]

\* getScore for one exchange: the body of a 200 response is returned as it
\* is; reading response.data.score for the debug log throws a TypeError on a
\* null body, which the catch turns into SCORER_ERROR like any error that
\* is not classified
GetScore(x) ==
    IF x.failure = NoFailure
    THEN IF x.data = Null THEN Thrown("SCORER_ERROR") ELSE Returned(x.data)
    ELSE Thrown(ClassifyScoreError(x.failure))

(* ------------------------- durable store ------------------------------- *)
\* errors pool.query may reject with: a unique violation, and an Error that
\* carries no code
DuplicateKey == [code |-> "23505", message |-> "duplicate key value"]
InsertErrors ==
    { DuplicateKey,
      [code |-> "", message |-> "Connection terminated unexpectedly"] }

\* CHECK (score BETWEEN 0 AND 100) on onboarding_sessions.score; NULL passes
ScoreCheck(s) == s = Null \/ (IsNum(s) /\ s[2] >= 0 /\ s[2] <= 100)

\* the rows with primary key id (none or one)
RowsById(tbl, id) == {w \in tbl : w.id = id}

\* a row as written by the INSERT of createSession
NewRow(l) ==
    [id |-> l.sessionId, userId |-> l.userId, createdAt |-> l.createdAt,
     rawInput |-> JsonStringifyValue(l.rawInput),
     parsedData |-> JsonStringifyValue(l.parsedData),
     score |-> Null, scoreExplanation |-> Null,
     sourceIp |-> OrNull(l.sourceIp), userAgent |-> OrNull(l.userAgent)]

\* UpdateScore as it would be if the UPDATE named user_agent in place of
\* score_explanation
UpdateScoreWrongColumn(tbl, id, s, e) ==
    {IF w.id = id THEN [w EXCEPT !.score = s, !.userAgent = e] ELSE w : w \in tbl}

\* UpdateScore as it would be if the UPDATE had no WHERE clause
UpdateScoreNoWhere(tbl, id, s, e) ==
    {[w EXCEPT !.score = s, !.scoreExplanation = e] : w \in tbl}

\* UPDATE onboarding_sessions SET score = s, score_explanation = e WHERE id
UpdateScore(tbl, id, s, e) ==
    {IF w.id = id THEN [w EXCEPT !.score = s, !.scoreExplanation = e] ELSE w : w \in tbl}

(* --------------------------- Redis list -------------------------------- *)
\* expireAt of a key without a time to live (TTL answers -1 for it)
NoTtl == 0 - 1
EmptyKey == [list |-> <<>>, expireAt |-> NoTtl]

\* LPUSH key value
LPush(c, e) == [c EXCEPT !.list = <<e>> \o @]

\* LTrim as it would be if it kept the entries at the tail of the list
LTrimKeepsOldest(c, start, stop) ==
    LET n == Min(stop - start + 1, Len(c.list))
        kept == SubSeq(c.list, Len(c.list) - n + 1, Len(c.list))
    IN  IF kept = <<>> THEN EmptyKey ELSE [c EXCEPT !.list = kept]

\* LTRIM key start stop, both indices zero-based and inclusive, start >= 0
LTrim(c, start, stop) ==
    LET kept == SubSeq(c.list, start + 1, Min(stop + 1, Len(c.list)))
    IN  IF kept = <<>> THEN EmptyKey ELSE [c EXCEPT !.list = kept]

\* EXPIRE key seconds, issued at time t; no effect on a missing key
Expire(c, seconds, t) ==
    IF c.list = <<>> THEN c ELSE [c EXCEPT !.expireAt = t + seconds]

\* LRANGE key 0 -1
LRange(c) == c.list

\* a key whose time to live has run out at time t is gone
Expired(c, t) == c.expireAt # NoTtl /\ t > c.expireAt

(* ------------------------- error handler ------------------------------- *)
\* getStatusCodeFromErrorCode: statusMap[code] || 500
GetStatusCodeFromErrorCode(code) ==
    CASE code = "NOT_FOUND" -> 404
      [] code = "UNAUTHORIZED" -> 401
      [] code = "FORBIDDEN" -> 403
      [] code = "BAD_REQUEST" -> 400
      [] code = "SCORER_UNREACHABLE" -> 502
      [] code = "INVALID_INPUT" -> 400
      [] OTHER -> 500

ErrorBody(code, message) == [error |-> [code |-> code, message |-> message]]

\* ZodErrorResponse as it would be without the ZodError branch: a ZodError
\* has a message and no code
ZodErrorUnhandled(issues) ==
    [status |-> 500,
     body |-> ErrorBody("INTERNAL_SERVER_ERROR", "An unexpected error occurred")]

\* errorHandler for a ZodError with the given issues
ZodErrorResponse(issues) ==
    [status |-> 400,
     body |-> [error |-> [code |-> "VALIDATION_ERROR", message |-> "Invalid request data",
                          details |-> issues]]]

\* errorHandler for an error that is not a ZodError; the empty string is
\* the falsy code of an Error without one
ErrorHandler(err) ==
    IF err.code # "" /\ err.message # ""
    THEN [status |-> GetStatusCodeFromErrorCode(err.code),
          body |-> ErrorBody(err.code, err.message)]
    ELSE IF err.code = "23505"
    THEN [status |-> 409, body |-> ErrorBody("DUPLICATE_RESOURCE", "Resource already exists")]
    ELSE [status |-> 500,
          body |-> ErrorBody("INTERNAL_SERVER_ERROR", "An unexpected error occurred")]

(* ------------------------- API key ------------------------------------- *)
\* config.apiKey
ConfigApiKey == Str("dev-api-key")

\* what req.header('x-api-key') may be: undefined when the header is absent,
\* else its value
ApiKeyHeaders == {Undefined, Str(""), Str("wrong-key"), ConfigApiKey}

\* the routes of the router mounted at /v1/onboarding
Routes == {"POST /", "GET /:id", "GET /recent/:user_id"}

\* no response written: the middleware called next()
NextCalled == [status |-> 0, body |-> [none |-> TRUE]]

\* ApiKeyMiddleware as it would be if it only looked for the header
ApiKeyMiddlewarePresenceOnly(h) ==
    IF ~Truthy(h)
    THEN [status |-> 401,
          body |-> ErrorBody("MISSING_API_KEY", "API key is required in x-api-key header")]
    ELSE NextCalled

\* apiKeyMiddleware for the header value h: the response it writes, or
\* NextCalled
ApiKeyMiddleware(h) ==
    IF ~Truthy(h)
    THEN [status |-> 401,
          body |-> ErrorBody("MISSING_API_KEY", "API key is required in x-api-key header")]
    ELSE IF h # ConfigApiKey
    THEN [status |-> 401, body |-> ErrorBody("INVALID_API_KEY", "Invalid API key provided")]
    ELSE NextCalled

\* the header values with which a request reaches its route
Admitted == {h \in ApiKeyHeaders : ApiKeyMiddleware(h) = NextCalled}

(* ------------------------- migrations ---------------------------------- *)
\* file names are texts, a sequence of characters; Array.prototype.sort
\* compares them by their UTF-16 code units
CharCode(c) ==
    CASE c = "." -> 46
      [] c = "0" -> 48
      [] c = "1" -> 49
      [] c = "2" -> 50
      [] c = "l" -> 108
      [] c = "q" -> 113
      [] c = "s" -> 115
      [] c = "t" -> 116

\* a < b as sort() orders two texts: at the first position where they
\* differ the smaller code unit, else the shorter text
TextBefore(a, b) ==
    LET common == 1..Min(Len(a), Len(b))
        diff == {i \in common : a[i] # b[i]}
    IN  IF diff = {} THEN Len(a) < Len(b)
        ELSE LET i == CHOOSE i \in diff : \A j \in diff : i <= j
             IN  CharCode(a[i]) < CharCode(b[i])

\* file.endsWith('.sql')
SqlSuffix == <<".", "s", "q", "l">>
EndsWithSql(f) ==
    /\ Len(f) >= Len(SqlSuffix)
    /\ SubSeq(f, Len(f) - Len(SqlSuffix) + 1, Len(f)) = SqlSuffix

\* what the directory of the runner may hold: 1.sql, 10.sql, 2.sql and the
\* runner itself, which is no migration
File1 == <<"1", ".", "s", "q", "l">>
File10 == <<"1", "0", ".", "s", "q", "l">>
File2 == <<"2", ".", "s", "q", "l">>
RunnerFile == <<"t", ".", "t", "s">>
SqlFiles == {File1, File10, File2}

\* the elements of a set of texts in ascending order
RECURSIVE Sorted(_)
Sorted(S) ==
    IF S = {} THEN <<>>
    ELSE LET first == CHOOSE a \in S : \A b \in S \ {a} : TextBefore(a, b)
         IN  <<first>> \o Sorted(S \ {first})

\* the elements of a sequence that satisfy keep, in their order
RECURSIVE SelectFiles(_, _)
SelectFiles(q, keep) ==
    IF q = <<>> THEN <<>>
    ELSE (IF q[1] \in keep THEN <<q[1]>> ELSE <<>>) \o SelectFiles(Tail(q), keep)

\* readdirSync(...).filter(endsWith('.sql')).sort()
MigrationFiles(dir) == Sorted({f \in dir : EndsWithSql(f)})

\* PendingFiles as it would be if the migrations table were not consulted
PendingFilesAll(dir, executedFiles) == MigrationFiles(dir)

\* the files the loop executes, in its order: those of migrationFiles that
\* executedFiles does not have
PendingFiles(dir, executedFiles) ==
    SelectFiles(MigrationFiles(dir), dir \ executedFiles)

\* start(): what becomes of the process when runMigrations rejects, and
\* when it resolves and app.listen binds the port or does not: a port out
\* of range throws inside the try and the catch exits with status 1, an
\* address in use is an 'error' event nobody handles and node ends the
\* process with status 1
StartRejectedIgnored(srv) == [srv EXCEPT !.state = "listening"]

StartRejected(srv) == [srv EXCEPT !.state = "exited", !.code = 1]
StartResolved(srv, bound) ==
    IF bound THEN [srv EXCEPT !.state = "listening"]
    ELSE [srv EXCEPT !.state = "exited", !.code = 1]

\* the handlers of SIGINT and SIGTERM: process.exit(0)
Signalled(srv) == [srv EXCEPT !.state = "exited", !.code = 0]

(* ---------------------------- state ------------------------------------ *)
VARIABLES
    now,        \* the clock, in seconds
    ticks,      \* ticks elapsed
    rows,       \* the table onboarding_sessions
    cache,      \* Redis: per user the list onboarding:recent:<user> and its expiry
    pushSeq,    \* number of LPUSH commands Redis has applied
    pc,         \* per request: the call it is waiting for
    loc,        \* per request: the locals of createSession
    result,     \* per request: the HTTP response
    trace,      \* per request: the external calls made so far, with their outcomes
    call,       \* a function of the program called on its own: argument and outcome
    files,      \* the names in the directory of the migration runner
    migrations, \* the table migrations: the recorded file names, ordered by id
    applied,    \* the migration files whose statements are committed
    tx,         \* the open transaction of the runner's client, if any
    run,        \* the locals of runMigrations
    server,     \* the process: starting, listening or exited
    executions  \* every execution of a migration file so far, over all starts

vars == <<now, ticks, rows, cache, pushSeq, pc, loc, result, trace, call,
          files, migrations, applied, tx, run, server, executions>>
serviceVars == <<now, ticks, rows, cache, pushSeq, pc, loc, result, trace, call>>
startVars == <<files, migrations, applied, tx, run, server, executions>>

NoUser == "nobody"
NoResult == [status |-> 0, body |-> [none |-> TRUE]]
NoLoc == [op |-> "none", userId |-> NoUser, sessionId |-> 0, createdAt |-> 0,
          rawInput |-> Undefined, parsedData |-> Undefined,
          score |-> Null, scoreExplanation |-> Null,
          sourceIp |-> Undefined, userAgent |-> Undefined, apiKey |-> Undefined,
          body |-> Undefined]
NoData == [none |-> TRUE]
\* the locals of a request that arrived with header value h
NewLoc(h) == [NoLoc EXCEPT !.apiKey = h]
NoCall == [fn |-> "none", arg |-> Undefined, out |-> Undefined]

\* an external call as its collaborator saw it: which call, whether it
\* succeeded, and what it carried
Event(c, ok, d) == [call |-> c, ok |-> ok, data |-> d]

\* a cached entry: the stored JSON text and the position of its LPUSH in the
\* order in which Redis applied the pushes
Entry(summary, n) == [json |-> JsonStringify(summary), ord |-> n]

PreloadRow(i) ==
    [id |-> i, userId |-> "u1", createdAt |-> 0,
     rawInput |-> JsonStringifyValue(Obj(<<>>)),
     parsedData |-> JsonStringifyValue(ParseRawInput(Obj(<<>>))),
     score |-> Num(78), scoreExplanation |-> Str("e1"),
     sourceIp |-> Null, userAgent |-> Null]
PreloadEntry(i) ==
    Entry([id |-> i, createdAt |-> ToISOString(0), score |-> Num(78)], i)

\* the state after n earlier createSession calls of user u1 completed, all of
\* them scored and cached at time 0
Preloaded(n) ==
    /\ rows = {PreloadRow(i) : i \in 1..n}
    /\ cache = [u \in Users |->
                  IF u = "u1" /\ n > 0
                  THEN [list |-> [k \in 1..n |-> PreloadEntry(n + 1 - k)],
                        expireAt |-> recentSessionsTtl]
                  ELSE EmptyKey]
    /\ pushSeq = n

PreloadSizes == {0, recentSessionsLimit}

NoTx == [open |-> FALSE, sql |-> {}, record |-> <<>>]
NewRun == [pc |-> "connect", client |-> "none", executedFiles |-> {}, pending |-> <<>>]
NewProcess(n) == [state |-> "starting", code |-> 0, no |-> n, served |-> FALSE]

\* the process has started: the one migration of the repository is applied
\* and recorded, the server listens
Serving ==
    /\ files = {File1, RunnerFile}
    /\ migrations = <<File1>>
    /\ applied = {File1}
    /\ tx = NoTx
    /\ run = [NewRun EXCEPT !.pc = "done", !.client = "released"]
    /\ server = StartResolved(NewProcess(1), TRUE)
    /\ executions = <<[run |-> 1, file |-> File1, committed |-> TRUE]>>

Init ==
    /\ Serving
    /\ now = 0
    /\ ticks = 0
    /\ \E n \in PreloadSizes : Preloaded(n)
    /\ pc = [r \in Req |-> "idle"]
    /\ loc = [r \in Req |-> NoLoc]
    /\ result = [r \in Req |-> NoResult]
    /\ trace = [r \in Req |-> <<>>]
    /\ call = NoCall

(* ----------------------- createSession --------------------------------- *)
\* the session view that createSession returns (lines 81-91)
SessionView(l) ==
    [id |-> l.sessionId, userId |-> l.userId, createdAt |-> ToISOString(l.createdAt),
     rawInput |-> l.rawInput, parsedData |-> l.parsedData,
     score |-> l.score, scoreExplanation |-> l.scoreExplanation,
     sourceIp |-> OrNull(l.sourceIp), userAgent |-> OrNull(l.userAgent)]

\* res.json(session): the session as the JSON text of the response carries it
ResJson(view) ==
    [view EXCEPT !.rawInput = DropUndefined(@), !.parsedData = DropUndefined(@)]

\* SessionSummary as it would be if it were built before the scoring call
SessionSummaryUnscored(l) ==
    [id |-> l.sessionId, createdAt |-> ToISOString(l.createdAt), score |-> Null]

\* the summary that createSession hands to addRecentSession (lines 71-75)
SessionSummary(l) ==
    [id |-> l.sessionId, createdAt |-> ToISOString(l.createdAt), score |-> l.score]

\* identifiers some request has drawn or some row carries
Drawn == {loc[q].sessionId : q \in {q \in Req : loc[q].op = "create"}} \cup {w.id : w \in rows}

\* identifiers uuidv4 may return: a fresh one (the lowest stands for all of
\* them), or one that was drawn before (a collision)
UuidChoices ==
    {i \in NewIds : i \notin Drawn /\ \A j \in NewIds : j < i => j \in Drawn}
        \cup (Drawn \cap (NewIds \cup {1}))

\* a new request takes the lowest free slot (the slots are interchangeable)
Free(r) ==
    /\ server.state = "listening"
    /\ pc[r] = "idle" /\ \A q \in Req : q < r => pc[q] # "idle"

\* POST /v1/onboarding: the controller validates the body; when it is
\* accepted createSession draws id and timestamp, normalises the payload and
\* issues the INSERT; when it is not, errorHandler answers the ZodError
Begin(r) ==
    /\ Free(r)
    /\ \E h \in Admitted, req \in CreateRequests :
         IF SchemaIssues(req) = {}
         THEN /\ \E id \in UuidChoices :
                   loc' = [loc EXCEPT ![r] =
                             [NewLoc(h) EXCEPT !.op = "create",
                                           !.userId = UserOf(req.userId),
                                           !.sessionId = id,
                                           !.createdAt = now,
                                           !.body = req.rawInput,
                                           !.rawInput = ParsedRawInput(req.rawInput),
                                           !.parsedData =
                                               ParseRawInput(ParsedRawInput(req.rawInput)),
                                           !.sourceIp = req.ip,
                                           !.userAgent = req.userAgent]]
              /\ pc' = [pc EXCEPT ![r] = "insert"]
              /\ UNCHANGED <<result, trace>>
         ELSE /\ loc' = [loc EXCEPT ![r] = [NewLoc(h) EXCEPT !.op = "create"]]
              /\ pc' = [pc EXCEPT ![r] = "failed"]
              /\ result' = [result EXCEPT ![r] = ZodErrorResponse(SchemaIssues(req))]
              /\ trace' = [trace EXCEPT ![r] =
                              Append(@, Event("parse", FALSE,
                                              [body |-> [userId |-> req.userId,
                                                         rawInput |-> req.rawInput]]))]
    /\ UNCHANGED <<now, ticks, rows, cache, pushSeq, call, startVars>>

\* what follows the try/catch around scoring (lines 69-91): the append when
\* score !== null, otherwise the return
AfterScoring(r, l) ==
    IF l.score # Null
    THEN /\ pc' = [pc EXCEPT ![r] = "lpush"]
         /\ result' = result
    ELSE /\ pc' = [pc EXCEPT ![r] = "done"]
         /\ result' = [result EXCEPT ![r] = [status |-> 201, body |-> ResJson(SessionView(l))]]

\* InsertOk as it would be if id were not the primary key of the table
InsertOkNoPrimaryKey(r) ==
    /\ pc[r] = "insert"
    /\ rows' = rows \cup {NewRow(loc[r])}
    /\ trace' = [trace EXCEPT ![r] = Append(@, Event("insert", TRUE, NoData))]
    /\ pc' = [pc EXCEPT ![r] = "score"]
    /\ UNCHANGED <<now, ticks, cache, pushSeq, loc, result, call, startVars>>

\* the INSERT succeeds: the primary key is free
InsertOk(r) ==
    /\ pc[r] = "insert"
    /\ RowsById(rows, loc[r].sessionId) = {}
    /\ rows' = rows \cup {NewRow(loc[r])}
    /\ trace' = [trace EXCEPT ![r] = Append(@, Event("insert", TRUE, NoData))]
    /\ pc' = [pc EXCEPT ![r] = "score"]
    /\ UNCHANGED <<now, ticks, cache, pushSeq, loc, result, call, startVars>>

\* InsertFail as it would be if the outer catch swallowed the error
InsertFailSwallowed(r) ==
    /\ pc[r] = "insert"
    /\ \E err \in InsertErrors :
         /\ (err = DuplicateKey) => RowsById(rows, loc[r].sessionId) # {}
         /\ trace' = [trace EXCEPT ![r] =
                         Append(@, Event("insert", FALSE, [error |-> err]))]
    /\ pc' = [pc EXCEPT ![r] = "score"]
    /\ UNCHANGED <<now, ticks, rows, cache, pushSeq, loc, result, call, startVars>>

\* the INSERT is rejected: the outer catch rethrows, the controller passes
\* the error to errorHandler; the trace keeps the error pool.query rejected
\* with
InsertFail(r) ==
    /\ pc[r] = "insert"
    /\ \E err \in InsertErrors :
         /\ (err = DuplicateKey) => RowsById(rows, loc[r].sessionId) # {}
         /\ result' = [result EXCEPT ![r] = ErrorHandler(err)]
         /\ trace' = [trace EXCEPT ![r] =
                         Append(@, Event("insert", FALSE, [error |-> err]))]
    /\ pc' = [pc EXCEPT ![r] = "failed"]
    /\ UNCHANGED <<now, ticks, rows, cache, pushSeq, loc, call, startVars>>

\* ScoreOk as it would be if the UPDATE were not issued before the append
ScoreOkUpdateSkipped(r) ==
    /\ pc[r] = "score"
    /\ \E a \in EngineAnswers :
         /\ loc' = [loc EXCEPT ![r].score = a.score, ![r].scoreExplanation = a.explanation]
         /\ trace' = [trace EXCEPT ![r] = Append(@, Event("score", TRUE, a))]
         /\ AfterScoring(r, [loc[r] EXCEPT !.score = a.score,
                                           !.scoreExplanation = a.explanation])
    /\ UNCHANGED <<now, ticks, rows, cache, pushSeq, call, startVars>>

\* getScore returns the body of a 200 response; the UPDATE is issued
ScoreOk(r) ==
    /\ pc[r] = "score"
    /\ \E a \in EngineAnswers :
         /\ loc' = [loc EXCEPT ![r].score = a.score, ![r].scoreExplanation = a.explanation]
         /\ trace' = [trace EXCEPT ![r] = Append(@, Event("score", TRUE, a))]
    /\ pc' = [pc EXCEPT ![r] = "update"]
    /\ UNCHANGED <<now, ticks, rows, cache, pushSeq, result, call, startVars>>

\* ScoreFail as it would be without the inner try/catch
ScoreFailRethrown(r) ==
    /\ pc[r] = "score"
    /\ trace' = [trace EXCEPT ![r] = Append(@, Event("score", FALSE, NoData))]
    /\ pc' = [pc EXCEPT ![r] = "failed"]
    /\ result' = [result EXCEPT ![r] = ErrorHandler([code |-> "", message |-> "SCORER_ERROR"])]
    /\ UNCHANGED <<now, ticks, rows, cache, pushSeq, loc, call, startVars>>

\* ScoreFail as it would be if the failed call were tried again
ScoreFailRetried(r) ==
    /\ pc[r] = "score"
    /\ trace' = [trace EXCEPT ![r] = Append(@, Event("score", FALSE, NoData))]
    /\ UNCHANGED <<now, ticks, rows, cache, pushSeq, pc, loc, result, call, startVars>>

\* getScore throws: the inner catch logs, score stays null
ScoreFail(r) ==
    /\ pc[r] = "score"
    /\ \E f \in TransportFailures :
         ClassifyScoreError(f) \in {"SCORER_UNREACHABLE", "SCORER_UNAUTHORIZED", "SCORER_ERROR"}
    /\ trace' = [trace EXCEPT ![r] = Append(@, Event("score", FALSE, NoData))]
    /\ AfterScoring(r, loc[r])
    /\ UNCHANGED <<now, ticks, rows, cache, pushSeq, loc, call, startVars>>

\* the UPDATE is applied
UpdateOk(r) ==
    /\ pc[r] = "update"
    /\ ScoreCheck(loc[r].score)
    /\ rows' = UpdateScore(rows, loc[r].sessionId, loc[r].score, loc[r].scoreExplanation)
    /\ trace' = [trace EXCEPT ![r] = Append(@, Event("update", TRUE, NoData))]
    /\ AfterScoring(r, loc[r])
    /\ UNCHANGED <<now, ticks, cache, pushSeq, loc, call, startVars>>

\* UpdateFail as it would be if score were assigned only after the UPDATE
UpdateFailScoreLost(r) ==
    /\ pc[r] = "update"
    /\ trace' = [trace EXCEPT ![r] = Append(@, Event("update", FALSE, NoData))]
    /\ loc' = [loc EXCEPT ![r].score = Null, ![r].scoreExplanation = Null]
    /\ AfterScoring(r, loc'[r])
    /\ UNCHANGED <<now, ticks, rows, cache, pushSeq, call, startVars>>

\* UpdateFail as it would be if the UPDATE ran outside the inner try/catch
UpdateFailRethrown(r) ==
    /\ pc[r] = "update"
    /\ trace' = [trace EXCEPT ![r] = Append(@, Event("update", FALSE, NoData))]
    /\ pc' = [pc EXCEPT ![r] = "failed"]
    /\ result' = [result EXCEPT ![r] =
                     ErrorHandler([code |-> "", message |-> "Connection terminated"])]
    /\ UNCHANGED <<now, ticks, rows, cache, pushSeq, loc, call, startVars>>

\* the UPDATE is rejected (connection error, or the CHECK on score): the
\* inner catch logs, the locals keep the score
UpdateFail(r) ==
    /\ pc[r] = "update"
    /\ trace' = [trace EXCEPT ![r] = Append(@, Event("update", FALSE, NoData))]
    /\ AfterScoring(r, loc[r])
    /\ UNCHANGED <<now, ticks, rows, cache, pushSeq, loc, call, startVars>>

(* ---------------------- addRecentSession ------------------------------- *)
\* createSession returns once addRecentSession has resolved
Return(r) ==
    /\ pc' = [pc EXCEPT ![r] = "done"]
    /\ result' = [result EXCEPT ![r] =
                     [status |-> 201, body |-> ResJson(SessionView(loc[r]))]]

\* CmdLPush as it would be if the key were built from another user's id
CmdLPushOtherKey(r) ==
    /\ pc[r] = "lpush"
    /\ \E ok \in BOOLEAN, u \in Users \ {loc[r].userId} :
         /\ IF ok
            THEN /\ cache' = [cache EXCEPT ![u] =
                                 LPush(@, Entry(SessionSummary(loc[r]), pushSeq + 1))]
                 /\ pushSeq' = pushSeq + 1
            ELSE UNCHANGED <<cache, pushSeq>>
         /\ trace' = [trace EXCEPT ![r] =
                         Append(@, Event("lpush", ok, [before |-> cache[u],
                                                       ord |-> pushSeq + 1]))]
    /\ pc' = [pc EXCEPT ![r] = "ltrim"]
    /\ UNCHANGED <<now, ticks, rows, loc, result, call, startVars>>

\* Redis executes the LPUSH of the pipeline, or answers it with an error
CmdLPush(r) ==
    /\ pc[r] = "lpush"
    /\ \E ok \in BOOLEAN :
         /\ IF ok
            THEN /\ cache' = [cache EXCEPT ![loc[r].userId] =
                                 LPush(@, Entry(SessionSummary(loc[r]), pushSeq + 1))]
                 /\ pushSeq' = pushSeq + 1
            ELSE UNCHANGED <<cache, pushSeq>>
         /\ trace' = [trace EXCEPT ![r] =
                         Append(@, Event("lpush", ok, [before |-> cache[loc[r].userId],
                                                       ord |-> pushSeq + 1]))]
    /\ pc' = [pc EXCEPT ![r] = "ltrim"]
    /\ UNCHANGED <<now, ticks, rows, loc, result, call, startVars>>

\* Redis executes the LTRIM of the pipeline, or answers it with an error
CmdLTrim(r) ==
    /\ pc[r] = "ltrim"
    /\ \E ok \in BOOLEAN :
         /\ IF ok
            THEN cache' = [cache EXCEPT ![loc[r].userId] =
                              LTrim(@, 0, recentSessionsLimit - 1)]
            ELSE UNCHANGED cache
         /\ trace' = [trace EXCEPT ![r] = Append(@, Event("ltrim", ok, NoData))]
    /\ pc' = [pc EXCEPT ![r] = "expire"]
    /\ UNCHANGED <<now, ticks, rows, pushSeq, loc, result, call, startVars>>

\* Redis executes the EXPIRE of the pipeline, or answers it with an error;
\* exec() resolves and createSession returns
CmdExpire(r) ==
    /\ pc[r] = "expire"
    /\ \E ok \in BOOLEAN :
         /\ IF ok
            THEN cache' = [cache EXCEPT ![loc[r].userId] =
                              Expire(@, recentSessionsTtl, now)]
            ELSE UNCHANGED cache
         /\ trace' = [trace EXCEPT ![r] = Append(@, Event("expire", ok, NoData))]
    /\ Return(r)
    /\ UNCHANGED <<now, ticks, rows, pushSeq, loc, call, startVars>>

\* PipelineReject as it would be if the catch of addRecentSession rethrew
PipelineRejectThrown(r) ==
    /\ pc[r] = "lpush"
    /\ trace' = [trace EXCEPT ![r] = Append(@, Event("exec", FALSE, NoData))]
    /\ pc' = [pc EXCEPT ![r] = "failed"]
    /\ result' = [result EXCEPT ![r] =
                     ErrorHandler([code |-> "", message |-> "Connection is closed."])]
    /\ UNCHANGED <<now, ticks, rows, cache, pushSeq, loc, call, startVars>>

\* exec() rejects before any command reached Redis (lines 50-53): the catch
\* logs and addRecentSession resolves
PipelineReject(r) ==
    /\ pc[r] = "lpush"
    /\ trace' = [trace EXCEPT ![r] = Append(@, Event("exec", FALSE, NoData))]
    /\ Return(r)
    /\ UNCHANGED <<now, ticks, rows, cache, pushSeq, loc, call, startVars>>

(* --------------------------- reads ------------------------------------- *)
\* RecentSessions as it would be if the code asked for LRANGE key 1 -1
RecentSessionsFromOne(c, ok) ==
    IF ok THEN [k \in 1..(Len(LRange(c)) - 1) |-> JsonParse(LRange(c)[k + 1].json)] ELSE <<>>

\* RedisService.getRecentSessions: one LRANGE, or [] when it fails
RecentSessions(c, ok) ==
    IF ok THEN [k \in 1..Len(LRange(c)) |-> JsonParse(LRange(c)[k].json)] ELSE <<>>

\* the controller's answer to a user_id that is no UUID
InvalidUserId ==
    [status |-> 400, body |-> ErrorBody("INVALID_USER_ID", "User ID must be a valid UUID")]

\* GetRecentSessions as it would be without the test of user_id: the read
\* goes to a key nobody wrote
GetRecentSessionsUnchecked(r) ==
    /\ Free(r)
    /\ \E h \in Admitted, p \in UserIdParams :
         IF MatchesUuid(p)
         THEN /\ loc' = [loc EXCEPT ![r] =
                           [NewLoc(h) EXCEPT !.op = "recent", !.userId = UserOf(p)]]
              /\ pc' = [pc EXCEPT ![r] = "lrange"]
              /\ UNCHANGED <<result, trace>>
         ELSE /\ loc' = [loc EXCEPT ![r] = [NewLoc(h) EXCEPT !.op = "recent"]]
              /\ pc' = [pc EXCEPT ![r] = "done"]
              /\ result' = [result EXCEPT ![r] = [status |-> 200, body |-> <<>>]]
              /\ trace' = [trace EXCEPT ![r] =
                              Append(@, Event("lrange", TRUE, [param |-> p]))]
    /\ UNCHANGED <<now, ticks, rows, cache, pushSeq, call, startVars>>

\* GET /v1/onboarding/recent/:user_id: the controller tests the shape of
\* user_id and answers 400 when it is no UUID; for a UUID the service calls
\* RedisService.getRecentSessions, which issues the LRANGE and awaits it
GetRecentSessions(r) ==
    /\ Free(r)
    /\ \E h \in Admitted, p \in UserIdParams :
         IF MatchesUuid(p)
         THEN /\ loc' = [loc EXCEPT ![r] =
                           [NewLoc(h) EXCEPT !.op = "recent", !.userId = UserOf(p)]]
              /\ pc' = [pc EXCEPT ![r] = "lrange"]
              /\ UNCHANGED <<result, trace>>
         ELSE /\ loc' = [loc EXCEPT ![r] = [NewLoc(h) EXCEPT !.op = "recent"]]
              /\ pc' = [pc EXCEPT ![r] = "done"]
              /\ result' = [result EXCEPT ![r] = InvalidUserId]
              /\ trace' = [trace EXCEPT ![r] =
                              Append(@, Event("match", FALSE, [param |-> p]))]
    /\ UNCHANGED <<now, ticks, rows, cache, pushSeq, call, startVars>>

\* Redis answers the LRANGE with the list as it is at that moment, or the
\* command fails and the catch gives []; the controller answers 200
CmdLRange(r) ==
    /\ pc[r] = "lrange"
    /\ pc' = [pc EXCEPT ![r] = "done"]
    /\ \E ok \in BOOLEAN :
         /\ result' = [result EXCEPT ![r] =
                          [status |-> 200,
                           body |-> RecentSessions(cache[loc[r].userId], ok)]]
         /\ trace' = [trace EXCEPT ![r] = Append(@, Event("lrange", ok, NoData))]
    /\ UNCHANGED <<now, ticks, rows, cache, pushSeq, loc, call, startVars>>

\* the view getSessionById builds from a row (lines 114-124)
RowView(w) ==
    [id |-> w.id, userId |-> w.userId, createdAt |-> ToISOString(w.createdAt),
     rawInput |-> JsonParseValue(w.rawInput), parsedData |-> JsonParseValue(w.parsedData),
     score |-> w.score, scoreExplanation |-> w.scoreExplanation,
     sourceIp |-> w.sourceIp, userAgent |-> w.userAgent]

\* an :id that is no UUID, such as 'abc': the controller tests only that
\* the parameter is not empty
MalformedId == -1

\* identifiers a client asks for: those of the requests, a preloaded one
\* and one that is no UUID
LookupIds == NewIds \cup {1, MalformedId}

\* errors the SELECT may be rejected with: the connection is lost, or
\* PostgreSQL cannot read the parameter as a uuid (invalid_text_representation)
ConnectionLost == [code |-> "", message |-> "Connection terminated unexpectedly"]
InvalidTextRepresentation ==
    [code |-> "22P02", message |-> "invalid input syntax for type uuid"]

\* what the controller answers for the row set of a successful SELECT
SessionResponse(found) ==
    IF found = {}
    THEN [status |-> 404,
          body |-> ErrorBody("SESSION_NOT_FOUND", "Onboarding session not found")]
    ELSE [status |-> 200, body |-> ResJson(RowView(CHOOSE w \in found : TRUE))]

\* GET /v1/onboarding/:id: the controller hands the parameter to
\* getSessionById, which issues one SELECT by primary key and awaits it
GetSessionById(r) ==
    /\ Free(r)
    /\ \E h \in Admitted, id \in LookupIds :
         loc' = [loc EXCEPT ![r] = [NewLoc(h) EXCEPT !.op = "get", !.sessionId = id]]
    /\ pc' = [pc EXCEPT ![r] = "select"]
    /\ UNCHANGED <<now, ticks, rows, cache, pushSeq, result, trace, call, startVars>>

\* the SELECT is answered with the rows as they are at that moment, or it
\* is rejected: always for a parameter that is no UUID, and whenever the
\* connection is lost; getSessionById rethrows and errorHandler answers
CmdSelect(r) ==
    /\ pc[r] = "select"
    /\ pc' = [pc EXCEPT ![r] = "done"]
    /\ \E lost \in BOOLEAN :
         LET err == IF lost THEN ConnectionLost ELSE InvalidTextRepresentation
         IN  IF lost \/ loc[r].sessionId = MalformedId
             THEN /\ result' = [result EXCEPT ![r] = ErrorHandler(err)]
                  /\ trace' = [trace EXCEPT ![r] =
                                  Append(@, Event("select", FALSE, [error |-> err]))]
             ELSE /\ result' = [result EXCEPT ![r] =
                                   SessionResponse(RowsById(rows, loc[r].sessionId))]
                  /\ trace' = [trace EXCEPT ![r] = Append(@, Event("select", TRUE, NoData))]
    /\ UNCHANGED <<now, ticks, rows, cache, pushSeq, loc, call, startVars>>

\* a request to one of the routes whose x-api-key the middleware does not
\* accept: the middleware answers and returns without calling next(), so
\* neither the controller nor the service runs
Denied(r) ==
    /\ Free(r)
    /\ \E h \in ApiKeyHeaders \ Admitted, route \in Routes :
         /\ loc' = [loc EXCEPT ![r] = [NewLoc(h) EXCEPT !.op = "denied"]]
         /\ result' = [result EXCEPT ![r] = ApiKeyMiddleware(h)]
         /\ trace' = [trace EXCEPT ![r] =
                         Append(@, Event("apiKey", FALSE, [route |-> route]))]
    /\ pc' = [pc EXCEPT ![r] = "failed"]
    /\ UNCHANGED <<now, ticks, rows, cache, pushSeq, call, startVars>>

(* ---------------------------- time ------------------------------------- *)
\* time passes, whether or not a request is between two of its calls;
\* Redis drops the keys whose time to live has run out
Tick ==
    /\ ticks < MaxTicks
    /\ ticks' = ticks + 1
    /\ now' = now + TickStep
    /\ cache' = [u \in Users |-> IF Expired(cache[u], now + TickStep) THEN EmptyKey
                                 ELSE cache[u]]
    /\ UNCHANGED <<rows, pushSeq, pc, loc, result, trace, call, startVars>>

Step(r) ==
    \/ Begin(r)
    \/ InsertOk(r)
    \/ InsertFail(r)
    \/ ScoreOk(r)
    \/ ScoreFail(r)
    \/ UpdateOk(r)
    \/ UpdateFail(r)
    \/ CmdLPush(r)
    \/ CmdLTrim(r)
    \/ CmdExpire(r)
    \/ PipelineReject(r)
    \/ GetRecentSessions(r)
    \/ CmdLRange(r)
    \/ GetSessionById(r)
    \/ CmdSelect(r)
    \/ Denied(r)

Next ==
    \/ \E r \in Req : Step(r)
    \/ Tick

Spec == Init /\ [][Next]_vars

\* every external call a request has issued eventually returns or fails
Progress(r) ==
    \/ InsertOk(r)
    \/ InsertFail(r)
    \/ ScoreOk(r)
    \/ ScoreFail(r)
    \/ UpdateOk(r)
    \/ UpdateFail(r)
    \/ CmdLPush(r)
    \/ CmdLTrim(r)
    \/ CmdExpire(r)
    \/ PipelineReject(r)
    \/ CmdLRange(r)
    \/ CmdSelect(r)

\* the service started on an empty cache
InitLive == Init /\ \A u \in Users : cache[u] = EmptyKey

SpecLive == InitLive /\ [][Next]_vars /\ \A r \in Req : WF_vars(Progress(r))

(* -------------------- functions called on their own -------------------- *)
\* getScore for every exchange
CallGetScore ==
    /\ \E x \in Exchanges : call' = [fn |-> "getScore", arg |-> x, out |-> GetScore(x)]
    /\ UNCHANGED <<now, ticks, rows, cache, pushSeq, pc, loc, result, trace, startVars>>

\* parseRawInput for every rawInput
CallParseRawInput ==
    /\ \E raw \in RawInputs :
         call' = [fn |-> "parseRawInput", arg |-> raw, out |-> ParseRawInput(raw)]
    /\ UNCHANGED <<now, ticks, rows, cache, pushSeq, pc, loc, result, trace, startVars>>

NextCalls ==
    \/ CallGetScore
    \/ CallParseRawInput

SpecCalls == Init /\ [][NextCalls]_vars

(* ----------------------- start and runMigrations ----------------------- *)
\* the end of runMigrations: finally releases the client; when the function
\* resolves start() creates the server and listens, when it rejects start()
\* logs and exits with status 1
Resolve ==
    /\ run' = [run EXCEPT !.pc = "done", !.client = "released", !.pending = <<>>]
    /\ \E bound \in BOOLEAN : server' = StartResolved(server, bound)
Reject ==
    /\ run' = [run EXCEPT !.pc = "failed",
                          !.client = IF run.client = "held" THEN "released" ELSE @]
    /\ server' = StartRejected(server)

\* pool.connect(), before the try: without a client nothing is released
Connect ==
    /\ run.pc = "connect"
    /\ \E ok \in BOOLEAN :
         IF ok
         THEN /\ run' = [run EXCEPT !.pc = "create", !.client = "held"]
              /\ UNCHANGED server
         ELSE Reject
    /\ UNCHANGED <<files, migrations, applied, tx, executions, serviceVars>>

\* CREATE TABLE IF NOT EXISTS migrations
CreateTable ==
    /\ run.pc = "create"
    /\ \E ok \in BOOLEAN :
         IF ok
         THEN /\ run' = [run EXCEPT !.pc = "select"]
              /\ UNCHANGED server
         ELSE Reject
    /\ UNCHANGED <<files, migrations, applied, tx, executions, serviceVars>>

\* SELECT filename FROM migrations, then the directory is read, filtered
\* and sorted; with nothing pending the loop ends at once
SelectExecuted ==
    /\ run.pc = "select"
    /\ \E ok \in BOOLEAN :
         IF ok
         THEN LET executedFiles == {migrations[i] : i \in DOMAIN migrations}
                  pending == PendingFiles(files, executedFiles)
              IN  IF pending = <<>>
                  THEN Resolve
                  ELSE /\ run' = [run EXCEPT !.pc = "begin",
                                             !.executedFiles = executedFiles,
                                             !.pending = pending]
                       /\ UNCHANGED server
         ELSE Reject
    /\ UNCHANGED <<files, migrations, applied, tx, executions, serviceVars>>

\* BEGIN for the next pending file; it is sent outside the inner try, so a
\* failure is not followed by ROLLBACK
BeginTx ==
    /\ run.pc = "begin"
    /\ \E ok \in BOOLEAN :
         IF ok
         THEN /\ tx' = [NoTx EXCEPT !.open = TRUE]
              /\ run' = [run EXCEPT !.pc = "sql"]
              /\ UNCHANGED server
         ELSE Reject /\ UNCHANGED tx
    /\ UNCHANGED <<files, migrations, applied, executions, serviceVars>>

\* RunSql as it would be without BEGIN: the statements are committed as
\* they are executed
RunSqlAutocommit ==
    /\ run.pc = "sql"
    /\ \E ok \in BOOLEAN :
         /\ applied' = IF ok THEN applied \cup {Head(run.pending)} ELSE applied
         /\ run' = [run EXCEPT !.pc = IF ok THEN "record" ELSE "rollback"]
    /\ executions' = Append(executions, [run |-> server.no, file |-> Head(run.pending),
                                          committed |-> FALSE])
    /\ UNCHANGED <<files, migrations, tx, server, serviceVars>>

\* client.query(migrationSql): the statements of the file run inside the
\* transaction, or one of them fails
RunSql ==
    /\ run.pc = "sql"
    /\ \E ok \in BOOLEAN :
         /\ tx' = IF ok THEN [tx EXCEPT !.sql = {Head(run.pending)}] ELSE tx
         /\ run' = [run EXCEPT !.pc = IF ok THEN "record" ELSE "rollback"]
    /\ executions' = Append(executions, [run |-> server.no, file |-> Head(run.pending),
                                          committed |-> FALSE])
    /\ UNCHANGED <<files, migrations, applied, server, serviceVars>>

\* INSERT INTO migrations (filename); filename is UNIQUE
RecordFile ==
    /\ run.pc = "record"
    /\ \E ok \in BOOLEAN :
         /\ ok => \A i \in DOMAIN migrations : migrations[i] # Head(run.pending)
         /\ tx' = IF ok THEN [tx EXCEPT !.record = <<Head(run.pending)>>] ELSE tx
         /\ run' = [run EXCEPT !.pc = IF ok THEN "commit" ELSE "rollback"]
    /\ UNCHANGED <<files, migrations, applied, server, executions, serviceVars>>

\* COMMIT: what the transaction did becomes durable and the loop goes on
\* to the next pending file or ends; or COMMIT fails and nothing is durable
Commit ==
    /\ run.pc = "commit"
    /\ \E ok \in BOOLEAN :
         IF ok
         THEN /\ applied' = applied \cup tx.sql
              /\ migrations' = migrations \o tx.record
              /\ tx' = NoTx
              /\ executions' = [executions EXCEPT ![Len(executions)].committed = TRUE]
              /\ IF Tail(run.pending) = <<>>
                 THEN Resolve
                 ELSE /\ run' = [run EXCEPT !.pc = "begin", !.pending = Tail(@)]
                      /\ UNCHANGED server
         ELSE /\ run' = [run EXCEPT !.pc = "rollback"]
              /\ UNCHANGED <<applied, migrations, tx, executions, server>>
    /\ UNCHANGED <<files, serviceVars>>

\* ROLLBACK in the inner catch, then the error is thrown on; when ROLLBACK
\* itself fails its error is thrown instead and the server aborts the
\* transaction with the session
Rollback ==
    /\ run.pc = "rollback"
    /\ \E ok \in BOOLEAN : tx' = NoTx
    /\ Reject
    /\ UNCHANGED <<files, migrations, applied, executions, serviceVars>>

\* the listening server accepts a request
Serve ==
    /\ server.state = "listening"
    /\ ~server.served
    /\ server' = [server EXCEPT !.served = TRUE]
    /\ UNCHANGED <<files, migrations, applied, tx, run, executions, serviceVars>>

\* SIGINT or SIGTERM reaches the process, while it starts or while it
\* listens: it exits with status 0; a runMigrations that was waiting never
\* goes on and its client is not released.  The database aborts the
\* transaction of the closed session, unless the statement in flight was
\* COMMIT and the database had executed it before the process ended: then
\* what the transaction did is durable though the process never saw the
\* answer
Signal ==
    /\ server.state \in {"starting", "listening"}
    /\ server' = Signalled(server)
    /\ run' = IF run.pc \in {"done", "failed"} THEN run ELSE [run EXCEPT !.pc = "killed"]
    /\ tx' = NoTx
    /\ \E executed \in {FALSE, run.pc = "commit"} :
         IF executed
         THEN /\ applied' = applied \cup tx.sql
              /\ migrations' = migrations \o tx.record
              /\ executions' = [executions EXCEPT ![Len(executions)].committed = TRUE]
         ELSE UNCHANGED <<migrations, applied, executions>>
    /\ UNCHANGED <<files, serviceVars>>

\* the process that has exited is started again, possibly with new
\* migration files in the directory
Restart ==
    /\ server.state = "exited"
    /\ server.no < MaxRuns
    /\ \E new \in SUBSET (SqlFiles \ files) : files' = files \cup new
    /\ server' = NewProcess(server.no + 1)
    /\ run' = NewRun
    /\ UNCHANGED <<migrations, applied, tx, executions, serviceVars>>

\* the first start, on a database without tables
InitStart ==
    /\ \E dir \in SUBSET SqlFiles : files = dir \cup {RunnerFile}
    /\ migrations = <<>>
    /\ applied = {}
    /\ tx = NoTx
    /\ run = NewRun
    /\ server = NewProcess(1)
    /\ executions = <<>>
    /\ now = 0
    /\ ticks = 0
    /\ Preloaded(0)
    /\ pc = [r \in Req |-> "idle"]
    /\ loc = [r \in Req |-> NoLoc]
    /\ result = [r \in Req |-> NoResult]
    /\ trace = [r \in Req |-> <<>>]
    /\ call = NoCall

NextStart ==
    \/ Connect
    \/ CreateTable
    \/ SelectExecuted
    \/ BeginTx
    \/ RunSql
    \/ RecordFile
    \/ Commit
    \/ Rollback
    \/ Serve
    \/ Signal
    \/ Restart

SpecStart == InitStart /\ [][NextStart]_vars

(* ------------------------ reading the trace ---------------------------- *)
IsCreate(r) == loc[r].op = "create"
Events(r, c) == {i \in DOMAIN trace[r] : trace[r][i].call = c}
Called(r, c) == Events(r, c) # {}
Succeeded(r, c) == \E i \in Events(r, c) : trace[r][i].ok
Failed(r, c) == \E i \in Events(r, c) : ~trace[r][i].ok
\* the body the scoring engine answered with
Answer(r) == trace[r][CHOOSE i \in Events(r, "score") : trace[r][i].ok].data
AppendAttempted(r) == Called(r, "lpush") \/ Called(r, "exec")
IsError(res) == res.status >= 400 /\ res.body.error.code # ""
\* the step in which the SELECT of getSessionById, or the LRANGE of
\* getRecentSessions, of request q is answered, and the event of that answer
Selects(q) == loc[q].op = "get" /\ pc[q] = "select" /\ pc'[q] = "done"
Ranges(q) == loc[q].op = "recent" /\ pc[q] = "lrange" /\ pc'[q] = "done"
LastOf(q) == trace'[q][Len(trace'[q])]
\* a createSession that returned after a numeric score and a whole append
ScoredAndCached(r) ==
    /\ IsCreate(r) /\ pc[r] = "done"
    /\ Succeeded(r, "score") /\ IsNum(Answer(r).score)
    /\ Succeeded(r, "lpush") /\ Succeeded(r, "ltrim") /\ Succeeded(r, "expire")
PushOrd(r) == trace[r][CHOOSE i \in Events(r, "lpush") : TRUE].data.ord

(* ============================== C1 ===================================== *)
\* C1: when the durable INSERT of createSession fails, createSession fails
\* with that error (the response is an error, not a session view), the
\* request makes no scoring call, no score update and no cache append, and
\* the table and every user's list are as they were before the INSERT.
C1_InsertFailureStep(r) ==
    (pc[r] = "insert" /\ trace'[r] # trace[r] /\ ~trace'[r][Len(trace'[r])].ok)
        => /\ pc'[r] = "failed"
           /\ IsError(result'[r])
           /\ rows' = rows
           /\ cache' = cache
C1_FailedStaysFailed(r) ==
    Failed(r, "insert")
        => /\ UNCHANGED <<pc[r], result[r], trace[r]>>
           /\ ~Called(r, "score") /\ ~Called(r, "update") /\ ~AppendAttempted(r)
C1_InsertFailureIsFatal ==
    [][\A r \in Req : C1_InsertFailureStep(r) /\ C1_FailedStaysFailed(r)]_vars
C1_Witness ==
    \E r \in Req : /\ Failed(r, "insert")
                   /\ result[r].status = 500
                   /\ \E q \in Req : q # r /\ pc[q] = "done" /\ IsCreate(q)

(* ============================== C2 ===================================== *)
\* C2: when the INSERT succeeded and the scoring call failed, createSession
\* returns 201 with a view whose score and scoreExplanation are null, the
\* inserted row stays in the table with a null score, and every
\* getSessionById of that id whose SELECT is answered after the failure
\* returns 200 with the session and score = null; the only other answer it
\* can get is the 500 of a lost database connection.
ScoringFailed(r) == IsCreate(r) /\ Succeeded(r, "insert") /\ Failed(r, "score")
C2_ViewAndRow(r) ==
    ScoringFailed(r)
        => /\ pc[r] = "done"
           /\ result[r].status = 201
           /\ result[r].body.id = loc[r].sessionId
           /\ result[r].body.score = Null
           /\ result[r].body.scoreExplanation = Null
           /\ \E w \in rows : w.id = loc[r].sessionId /\ w.score = Null
C2_LaterGet(r, q) ==
    (ScoringFailed(r) /\ Selects(q) /\ loc[q].sessionId = loc[r].sessionId)
        => IF LastOf(q).ok
           THEN /\ result'[q].status = 200
                /\ result'[q].body.id = loc[r].sessionId
                /\ result'[q].body.userId = loc[r].userId
                /\ result'[q].body.score = Null
                /\ result'[q].body.scoreExplanation = Null
           ELSE /\ LastOf(q).data.error = ConnectionLost
                /\ result'[q] = ErrorHandler(ConnectionLost)
C2_ScoringFailureKeepsSession ==
    /\ [](\A r \in Req : C2_ViewAndRow(r))
    /\ [][\A r, q \in Req : C2_LaterGet(r, q)]_vars
C2_Witness ==
    \E r, q \in Req :
        /\ ScoringFailed(r) /\ pc[r] = "done"
        /\ loc[q].op = "get" /\ loc[q].sessionId = loc[r].sessionId
        /\ result[q].status = 200 /\ result[q].body.score = Null

(* ============================== C3 ===================================== *)
\* C3: when scoring succeeded with {score s, explanation e} and the durable
\* score update then failed, createSession does not raise: it returns 201
\* with score = s and scoreExplanation = e.
UpdateFailed(r) == IsCreate(r) /\ Succeeded(r, "score") /\ Failed(r, "update")
C3_UpdateFailureKeepsScore ==
    \A r \in Req :
        UpdateFailed(r)
            => /\ pc[r] \in {"lpush", "ltrim", "expire", "done"}
               /\ pc[r] = "done"
                    => /\ result[r].status = 201
                       /\ result[r].body.score = Answer(r).score
                       /\ result[r].body.scoreExplanation = Answer(r).explanation
C3_Witness ==
    \E r \in Req :
        /\ UpdateFailed(r) /\ pc[r] = "done"
        /\ result[r].body.score = Num(78)
        /\ \E w \in rows : w.id = loc[r].sessionId /\ w.score = Null

(* ============================== C4 ===================================== *)
\* C4: a cache failure during the append never raises: a createSession that
\* attempted the append returns 201 with the view fixed by its id, user,
\* timestamp and the engine's answer, whether the pipeline was rejected, any
\* of its commands failed, or all of them succeeded.
CacheFailed(r) ==
    Failed(r, "exec") \/ Failed(r, "lpush") \/ Failed(r, "ltrim") \/ Failed(r, "expire")
ExpectedView(r) ==
    [id |-> loc[r].sessionId, userId |-> loc[r].userId,
     createdAt |-> ToISOString(loc[r].createdAt),
     rawInput |-> DropUndefined(loc[r].rawInput),
     parsedData |-> DropUndefined(loc[r].parsedData),
     score |-> Answer(r).score, scoreExplanation |-> Answer(r).explanation,
     sourceIp |-> OrNull(loc[r].sourceIp), userAgent |-> OrNull(loc[r].userAgent)]
C4_CacheFailureNeverRaises ==
    \A r \in Req :
        (IsCreate(r) /\ AppendAttempted(r))
            => /\ pc[r] \in {"ltrim", "expire", "done"}
               /\ pc[r] = "done" => result[r] = [status |-> 201, body |-> ExpectedView(r)]
C4_Witness ==
    \E r, q \in Req :
        /\ pc[r] = "done" /\ pc[q] = "done" /\ IsCreate(r) /\ IsCreate(q)
        /\ AppendAttempted(r) /\ AppendAttempted(q)
        /\ CacheFailed(r) /\ ~CacheFailed(q)

(* ============================== C5 ===================================== *)
\* C5: every createSession whose INSERT succeeded eventually answers 201,
\* whatever the outcomes of the scoring call, the score update and the cache
\* append, provided each external call eventually returns or fails.
C5_AcceptedEventuallyCreated ==
    \A r \in Req :
        (IsCreate(r) /\ Succeeded(r, "insert"))
            ~> (pc[r] = "done" /\ result[r].status = 201)
C5_Witness ==
    \E r \in Req :
        /\ pc[r] = "done" /\ result[r].status = 201 /\ IsCreate(r)
        /\ Failed(r, "update") /\ CacheFailed(r)

(* ============================== C6 ===================================== *)
\* C6: in every reachable state, between the commands of an append and
\* under concurrent appends too, each user's list holds at most 10 entries
\* and is ordered newest-first by the order in which the pushes were applied.
NewestFirst(l) == \A i, j \in DOMAIN l : i < j => l[i].ord > l[j].ord
C6_BoundedNewestFirst ==
    \A u \in Users :
        /\ Len(cache[u].list) <= recentSessionsLimit
        /\ NewestFirst(cache[u].list)

(* ============================== C7 ===================================== *)
\* C7: a getRecentSessions that reads a user's list never runs while an
\* append to that list has its push applied and its truncation or expiry
\* reset outstanding, and never returns more than 10 entries.
PartiallyApplied(u) ==
    \E r \in Req : /\ IsCreate(r) /\ loc[r].userId = u
                   /\ pc[r] \in {"ltrim", "expire"}
                   /\ Succeeded(r, "lpush")
ReadsList(q, u) ==
    /\ Ranges(q) /\ loc[q].userId = u
    /\ result'[q].body # <<>>
C7_AppendIsAtomic ==
    [][\A q \in Req, u \in Users :
          ReadsList(q, u) => /\ ~PartiallyApplied(u)
                             /\ Len(result'[q].body) <= recentSessionsLimit]_vars

(* ============================== C8 ===================================== *)
\* C8: when an append whose push met a list of 10 entries completes, the
\* list holds exactly 10 entries: the new summary first, then the first 9
\* of the entries the push met, in their order.
Jsons(l) == [k \in DOMAIN l |-> l[k].json]
PushMet(r) == trace[r][CHOOSE i \in Events(r, "lpush") : TRUE].data.before.list
Completes(r) == IsCreate(r) /\ pc[r] \in {"ltrim", "expire"} /\ pc'[r] = "done"
C8_EleventhEvictsOldest ==
    [][\A r \in Req :
          (Completes(r) /\ Succeeded(r, "lpush") /\ Len(PushMet(r)) = recentSessionsLimit)
              => Jsons(cache'[loc[r].userId].list)
                    = <<JsonStringify(SessionSummary(loc[r]))>>
                         \o SubSeq(Jsons(PushMet(r)), 1, recentSessionsLimit - 1)]_vars

(* ============================== C9 ===================================== *)
\* C9: an append that pushed its entry leaves the list with an expiry of
\* exactly 24 hours (86400 s) from the moment it completes; a list to which
\* no append is in progress has an expiry and has not outlived it; and
\* nothing but the EXPIRE of an append (a read, a failed command) moves the
\* expiry of a list.
AppendInProgress(u) ==
    \E r \in Req : IsCreate(r) /\ loc[r].userId = u /\ pc[r] \in {"ltrim", "expire"}
C9_Unexpired ==
    \A u \in Users :
        (cache[u].list # <<>> /\ ~AppendInProgress(u))
            => (cache[u].expireAt # NoTtl /\ now <= cache[u].expireAt)
C9_ResetByAppend ==
    \A r \in Req :
        (Completes(r) /\ Succeeded(r, "lpush"))
            => cache'[loc[r].userId].expireAt = now + recentSessionsTtl
C9_MovedByExpireOnly ==
    \A u \in Users :
        (cache'[u].list # <<>> /\ cache[u].list # <<>>
            /\ cache'[u].expireAt # cache[u].expireAt)
            => \E r \in Req : pc[r] = "expire" /\ pc'[r] = "done" /\ loc[r].userId = u
C9_ExpiryFollowsLastAppend ==
    /\ []C9_Unexpired
    /\ [][C9_ResetByAppend /\ C9_MovedByExpireOnly]_vars

(* ============================== C10 ==================================== *)
\* C10: a createSession attempts the cache append if and only if its
\* scoring call succeeded (also when the score update failed), and a
\* session whose scoring call failed has no summary in any list.
InSomeList(id) ==
    \E u \in Users : \E k \in DOMAIN cache[u].list : JsonParse(cache[u].list[k].json).id = id
C10_AppendIffScored ==
    \A r \in Req :
        (IsCreate(r) /\ pc[r] = "done")
            => /\ Succeeded(r, "score") <=> AppendAttempted(r)
               /\ Failed(r, "score") => ~InSomeList(loc[r].sessionId)

(* ============================== C11 ==================================== *)
\* C11: when a createSession for user U got a score response {score s,
\* explanation e} from the engine, no command of the cache failed for it and
\* no other request appended to U's list, it returns 201 with score = s and
\* scoreExplanation = e, and a getRecentSessions(U) whose LRANGE is answered
\* after it returned, successfully and before the time to live has passed,
\* returns a list whose first element is {id, createdAt, score: s} with the
\* id and createdAt of the returned view.
ScoredCacheAvailable(r) ==
    /\ IsCreate(r) /\ pc[r] = "done"
    /\ Succeeded(r, "score")
    /\ ~Failed(r, "lpush") /\ ~Failed(r, "ltrim") /\ ~Failed(r, "expire")
    /\ ~Called(r, "exec")
OthersAppended(r) ==
    \E p \in Req \ {r} : IsCreate(p) /\ loc[p].userId = loc[r].userId /\ Called(p, "lpush")
C11_View(r) ==
    ScoredCacheAvailable(r)
        => /\ result[r].status = 201
           /\ result[r].body.score = Answer(r).score
           /\ result[r].body.scoreExplanation = Answer(r).explanation
C11_FollowingRead(r, q) ==
    (/\ ScoredCacheAvailable(r) /\ ~OthersAppended(r)
     /\ now < loc[r].createdAt + recentSessionsTtl
     /\ Ranges(q) /\ loc[q].userId = loc[r].userId
     /\ LastOf(q).ok)
        => /\ result'[q].status = 200
           /\ result'[q].body # <<>>
           /\ result'[q].body[1] = [id |-> result[r].body.id,
                                    createdAt |-> result[r].body.createdAt,
                                    score |-> Answer(r).score]
C11_ScoredSessionHeadsList ==
    /\ [](\A r \in Req : C11_View(r))
    /\ [][\A r, q \in Req : C11_FollowingRead(r, q)]_vars

(* ============================== C12 ==================================== *)
\* C12: in every session view returned by createSession or getSessionById,
\* in every durable row and in every cached summary, score is null or an
\* integer in 0..100, whatever the scoring engine answered.
InRange(v) == v = Null \/ (IsNum(v) /\ v[2] \in 0..100)
ReturnedView(r) ==
    /\ pc[r] = "done" /\ loc[r].op \in {"create", "get"}
    /\ result[r].status \in {200, 201}
Summaries(u) == {JsonParse(cache[u].list[k].json) : k \in DOMAIN cache[u].list}
C12_ScoreInRange ==
    /\ \A r \in Req : ReturnedView(r) => InRange(result[r].body.score)
    /\ \A w \in rows : InRange(w.score)
    /\ \A u \in Users : \A m \in Summaries(u) : InRange(m.score)

(* ============================== C13 ==================================== *)
\* C13: in every durable row and in every session view returned by
\* createSession or getSessionById, scoreExplanation is present if and only
\* if score is present.
SetTogether(v) == (v.score # Null) <=> (v.scoreExplanation # Null)
C13_ExplanationIffScore ==
    /\ \A r \in Req : ReturnedView(r) => SetTogether(result[r].body)
    /\ \A w \in rows : SetTogether(w)

(* ============================== C14 ==================================== *)
\* C14: no step removes a row or changes its createdAt; a row whose score
\* or scoreExplanation is set is never changed again; and over all requests
\* a row receives at most one score update (a preloaded row, scored before,
\* none).
C14_RowKept(w) ==
    \E v \in rows' :
        /\ v.id = w.id /\ v.createdAt = w.createdAt
        /\ (w.score # Null \/ w.scoreExplanation # Null) => v = w
UpdatesOf(id) ==
    {r \in Req : IsCreate(r) /\ loc[r].sessionId = id /\ Succeeded(r, "update")}
C14_ScoreSetAtMostOnce ==
    /\ [][\A w \in rows : C14_RowKept(w)]_vars
    /\ [](\A id \in 1..(recentSessionsLimit + MaxReq) :
              Cardinality(UpdatesOf(id)) <= (IF id \in NewIds THEN 1 ELSE 0))
C14_Witness ==
    \E r, q \in Req :
        /\ r # q /\ IsCreate(r) /\ IsCreate(q)
        /\ loc[q].sessionId = loc[r].sessionId
        /\ Succeeded(r, "update") /\ Failed(q, "insert")
        /\ \E w \in rows : w.id = loc[r].sessionId /\ w.score = Num(78)
        /\ \E w \in rows : w.id = 1

(* ============================== C15 ==================================== *)
\* C15: the score update of session id changes only score and
\* scoreExplanation of the row with that id: its id, userId, createdAt,
\* rawInput, parsedData, sourceIp and userAgent and every other row stay as
\* they were, no row is added or removed, and the table is unchanged when no
\* row has that id.  This holds of the UPDATE statement on every reachable
\* table, and of every step in which a request's UPDATE is applied, which
\* changes nothing else either.
OtherFields(w) ==
    [id |-> w.id, userId |-> w.userId, createdAt |-> w.createdAt,
     rawInput |-> w.rawInput, parsedData |-> w.parsedData,
     sourceIp |-> w.sourceIp, userAgent |-> w.userAgent]
OnlyScoreChanged(tbl, after, id, s, e) ==
    /\ \A w \in tbl :
         IF w.id = id
         THEN \E v \in after : /\ OtherFields(v) = OtherFields(w)
                               /\ v.score = s /\ v.scoreExplanation = e
         ELSE w \in after
    /\ Cardinality(after) = Cardinality(tbl)
    /\ RowsById(tbl, id) = {} => after = tbl
UpdateApplied(r) ==
    /\ pc[r] = "update" /\ pc'[r] # "update"
    /\ trace'[r][Len(trace'[r])].ok
C15_UpdateTouchesOnlyScore ==
    /\ [](\A id \in LookupIds, a \in EngineAnswers :
              OnlyScoreChanged(rows, UpdateScore(rows, id, a.score, a.explanation),
                               id, a.score, a.explanation))
    /\ [][\A r \in Req :
              UpdateApplied(r)
                  => /\ OnlyScoreChanged(rows, rows', loc[r].sessionId,
                                         loc[r].score, loc[r].scoreExplanation)
                     /\ cache' = cache]_vars
C15_Witness ==
    \E r, q \in Req :
        /\ r # q /\ IsCreate(r) /\ IsCreate(q)
        /\ Succeeded(r, "update") /\ Succeeded(q, "insert") /\ ~Called(q, "update")
        /\ \E w \in rows : /\ w.id = loc[r].sessionId /\ w.score = Num(78)
                            /\ w.rawInput = JsonStringifyValue(ParsedRawInput(RawInputA))
        /\ \E w \in rows : w.id = loc[q].sessionId /\ w.score = Null
        /\ RowsById(rows, 1) = {}

(* ============================== C16 ==================================== *)
\* C16: when createSession answered 201 with a view of session id, every
\* getSessionById(id) whose SELECT the database answers after that returns
\* 200 with a rawInput equal to the rawInput of the request body as it was
\* submitted and a parsedData equal to the parsedData of that 201
\* response, whatever the outcomes of scoring, score update and cache
\* append.
Created(r) == IsCreate(r) /\ pc[r] = "done" /\ result[r].status = 201
C16_Lookup(r, q) ==
    (/\ Created(r)
     /\ Selects(q) /\ loc[q].sessionId = result[r].body.id
     /\ LastOf(q).ok)
        => /\ result'[q].status = 200
           /\ result'[q].body.rawInput = loc[r].body
           /\ result'[q].body.parsedData = result[r].body.parsedData
C16_StoredPayloadRoundTrips ==
    [][\A r, q \in Req : C16_Lookup(r, q)]_vars

(* ============================== C17 ==================================== *)
\* C17: a getSessionById for an id that was never inserted, made while the
\* database can be reached, ends with 404 SESSION_NOT_FOUND and not with an
\* error raised to the error handler, and leaves the table and every list
\* as they were.
NeverInserted(id) ==
    /\ \A w \in rows : w.id # id
    /\ \A r \in Req : ~(IsCreate(r) /\ loc[r].sessionId = id /\ Succeeded(r, "insert"))
Lost(q) == ~LastOf(q).ok /\ LastOf(q).data.error = ConnectionLost
C17_Lookup(q) ==
    (Selects(q) /\ NeverInserted(loc[q].sessionId) /\ ~Lost(q))
        => /\ rows' = rows /\ cache' = cache
           /\ result'[q] = [status |-> 404,
                            body |-> ErrorBody("SESSION_NOT_FOUND",
                                               "Onboarding session not found")]
C17_AbsenceIsNotFound ==
    [][\A q \in Req : C17_Lookup(q)]_vars

(* ============================== C18 ==================================== *)
\* C18: getRecentSessions always answers 200 with a sequence and changes
\* nothing: the empty sequence when the LRANGE fails; when it succeeds, the
\* user's whole list as it is when Redis answers, in stored order, which is
\* newest first, and the empty sequence when nothing was ever pushed for
\* the user.  No state holds a key that is past its expiry, so a list whose
\* time to live ran out, also while the read was waiting, reads as the
\* empty sequence too.
EverPushed(u) ==
    \/ \E r \in Req : IsCreate(r) /\ loc[r].userId = u /\ Succeeded(r, "lpush")
    \/ \E k \in DOMAIN cache[u].list : cache[u].list[k] = PreloadEntry(cache[u].list[k].ord)
C18_Read(q, u) ==
    (Ranges(q) /\ loc[q].userId = u)
        => /\ result'[q].status = 200
           /\ rows' = rows /\ cache' = cache
           /\ ~LastOf(q).ok => result'[q].body = <<>>
           /\ LastOf(q).ok
                => /\ Len(result'[q].body) = Len(cache[u].list)
                   /\ \A k \in DOMAIN cache[u].list :
                         JsonStringify(result'[q].body[k]) = cache[u].list[k].json
                   /\ NewestFirst(cache[u].list)
                   /\ ~EverPushed(u) => result'[q].body = <<>>
C18_Issued(q) ==
    (pc[q] = "idle" /\ pc'[q] = "lrange") => (rows' = rows /\ cache' = cache)
C18_ReadNeverFails ==
    /\ [](\A u \in Users : ~Expired(cache[u], now))
    /\ [](\A q \in Req : (loc[q].op = "recent" /\ pc[q] = "done")
                              => result[q].status \in {200, 400})
    /\ [][\A q \in Req, u \in Users : C18_Read(q, u) /\ C18_Issued(q)]_vars
C18_Witness ==
    \E r, q \in Req :
        /\ loc[r].op = "recent" /\ loc[q].op = "recent" /\ loc[r].userId = loc[q].userId
        /\ Failed(r, "lrange") /\ result[r].body = <<>>
        /\ Succeeded(q, "lrange") /\ Len(result[q].body) = recentSessionsLimit
        /\ ticks = 1
C18_WitnessExpired ==
    \E q \in Req :
        /\ loc[q].op = "recent" /\ loc[q].userId = "u1"
        /\ Succeeded(q, "lrange") /\ result[q].body = <<>>
        /\ ticks = MaxTicks /\ rows # {}

(* ============================== C19 ==================================== *)
\* C19: a getRecentSessions request whose user_id does not have the shape of
\* a UUID is answered 400 INVALID_USER_ID, and no cache command is issued
\* for it: the lists are as they were and the request has read none.
RequestedUserId(q) ==
    IF trace'[q] = <<>> THEN UserIdText(loc'[q].userId) ELSE trace'[q][1].data.param
C19_Lookup(q) ==
    (pc[q] = "idle" /\ loc'[q].op = "recent" /\ ~MatchesUuid(RequestedUserId(q)))
        => /\ result'[q].status = 400
           /\ result'[q].body.error.code = "INVALID_USER_ID"
           /\ trace'[q][1].call # "lrange"
           /\ cache' = cache /\ rows' = rows
C19_MalformedUserIdRejected ==
    /\ [][\A q \in Req : C19_Lookup(q)]_vars
    /\ [](\A r \in Req : Failed(r, "match") => ~Called(r, "lrange") /\ pc[r] = "done")
C19_Witness ==
    \E r, q \in Req :
        /\ loc[r].op = "recent" /\ Failed(r, "match")
        /\ trace[r][1].data.param = NonHexUuid
        /\ result[r].status = 400
        /\ loc[q].op = "recent" /\ Succeeded(q, "lrange")
        /\ Len(result[q].body) = recentSessionsLimit

(* ============================== C20 ==================================== *)
\* C20: a create request whose body does not satisfy the request schema
\* (a userId that is no UUID, an age below the minimum) is answered 400
\* with an error body of code VALIDATION_ERROR and a message, and
\* createSession never runs for it: no row is inserted, no scoring call is
\* made and no list changes.
\* the body of the request that enters; of an accepted one, as parse
\* handed it on
SubmittedBody(q) ==
    IF trace'[q] # <<>>
    THEN trace'[q][1].data.body
    ELSE [userId |-> UserIdText(loc'[q].userId), rawInput |-> loc'[q].rawInput]
C20_Entry(q) ==
    (pc[q] = "idle" /\ loc'[q].op = "create" /\ SchemaIssues(SubmittedBody(q)) # {})
        => /\ pc'[q] = "failed"
           /\ result'[q].status = 400
           /\ result'[q].body.error.code = "VALIDATION_ERROR"
           /\ result'[q].body.error.message # ""
           /\ rows' = rows /\ cache' = cache
C20_MalformedCreateRejected ==
    /\ [][\A q \in Req : C20_Entry(q)]_vars
    /\ [](\A r \in Req :
              Failed(r, "parse")
                  => /\ pc[r] = "failed" /\ Len(trace[r]) = 1
                     /\ \A w \in rows : w.id # loc[r].sessionId)
C20_Witness ==
    \E r, q \in Req :
        /\ Failed(r, "parse") /\ Failed(q, "parse")
        /\ trace[r][1].data.body.userId = InvalidUuid
        /\ trace[q][1].data.body.rawInput = RawInputUnderage
        /\ result[r].status = 400 /\ result[q].status = 400
        /\ Cardinality(rows) = recentSessionsLimit

(* ============================== C21 ==================================== *)
\* C21: when the INSERT of createSession is rejected because a row with the
\* same id already exists (PostgreSQL code 23505), the request fails and its
\* response is 409 with error code DUPLICATE_RESOURCE, and no other error
\* response.
InsertError(r) == trace[r][CHOOSE i \in Events(r, "insert") : ~trace[r][i].ok].data.error
DuplicateInsert(r) == IsCreate(r) /\ Failed(r, "insert") /\ InsertError(r).code = "23505"
C21_DuplicateIsConflict ==
    \A r \in Req :
        DuplicateInsert(r)
            => /\ pc[r] = "failed"
               /\ result[r].status = 409
               /\ result[r].body.error.code = "DUPLICATE_RESOURCE"

(* ============================== C22 ==================================== *)
\* C22: when the scoring exchange fails because the connection is refused or
\* because the call times out (at the socket, or because the 30-second
\* timeout of the request elapsed), getScore throws SCORER_UNREACHABLE and
\* nothing else.
GetScoreCalled == call.fn = "getScore"
TimedOutOrRefused(x) == x.failure \in {"ECONNREFUSED", "ETIMEDOUT", "ECONNABORTED"}
C22_TimeoutOrRefusalIsUnreachable ==
    (GetScoreCalled /\ TimedOutOrRefused(call.arg))
        => call.out = Thrown("SCORER_UNREACHABLE")

(* ============================== C23 ==================================== *)
\* C23: when the scoring engine answers 401, getScore throws
\* SCORER_UNAUTHORIZED.
Unauthorized(x) == x.failure = "HTTP401"
C23_RejectionIsUnauthorized ==
    (GetScoreCalled /\ Unauthorized(call.arg))
        => call.out = Thrown("SCORER_UNAUTHORIZED")
C23_Witness ==
    /\ GetScoreCalled
    /\ Unauthorized(call.arg)
    /\ ~call.out.ok

(* ============================== C24 ==================================== *)
\* C24: a scoring exchange that is not a 200 response with a body
\* {score: integer in 0..100, explanation: text}, not a timeout or a refused
\* connection and not a 401 makes getScore throw SCORER_ERROR; a malformed
\* body and an unexpected status are not returned as a success.
WellFormed(d) ==
    /\ IsObject(d)
    /\ IsNum(Get(d, "score")) /\ Get(d, "score")[2] \in 0..100
    /\ IsStr(Get(d, "explanation"))
WellFormedSuccess(x) == x.failure = NoFailure /\ WellFormed(x.data)
C24_OtherOutcomesAreGenericError ==
    (/\ GetScoreCalled
     /\ ~WellFormedSuccess(call.arg)
     /\ ~TimedOutOrRefused(call.arg)
     /\ ~Unauthorized(call.arg))
        => call.out = Thrown("SCORER_ERROR")

(* ============================== C25 ==================================== *)
\* C25: a createSession makes at most one scoring call: none when its INSERT
\* failed, none before the INSERT succeeded, and exactly one once the INSERT
\* succeeded and the call has returned or failed; a failed scoring call is
\* not repeated.
ScoringCalls(r) == Cardinality(Events(r, "score"))
C25_ScoredAtMostOnce ==
    \A r \in Req :
        IsCreate(r)
            => /\ ScoringCalls(r) <= 1
               /\ ~Succeeded(r, "insert") => ScoringCalls(r) = 0
               /\ (Succeeded(r, "insert") /\ pc[r] # "score") => ScoringCalls(r) = 1
C25_Witness ==
    \E r, q \in Req :
        /\ IsCreate(r) /\ pc[r] = "done" /\ Failed(r, "score") /\ ScoringCalls(r) = 1
        /\ IsCreate(q) /\ pc[q] = "failed" /\ Failed(q, "insert") /\ ScoringCalls(q) = 0

(* ============================== C26 ==================================== *)
\* C26: a request to a route of /v1/onboarding that carries no x-api-key
\* header, or an empty one, is answered 401 MISSING_API_KEY, and one that
\* carries a non-empty key other than the configured one is answered 401
\* INVALID_API_KEY; such a request reaches neither validation nor the
\* service: it makes no external call, and the table and the lists are as
\* they were before it.
Arrived(r) == loc[r].op # "none"
CodeOf(res) == IF res.status = 401 THEN res.body.error.code ELSE "none"
OnlyMiddlewareRan(r) ==
    /\ pc[r] = "failed"
    /\ \A i \in DOMAIN trace[r] : trace[r][i].call = "apiKey"
C26_Answer(r, h) ==
    /\ (h \in {Undefined, Str("")})
          => CodeOf(result[r]) = "MISSING_API_KEY" /\ OnlyMiddlewareRan(r)
    /\ (h \notin {Undefined, Str(""), ConfigApiKey})
          => CodeOf(result[r]) = "INVALID_API_KEY" /\ OnlyMiddlewareRan(r)
C26_NoEffect(r) ==
    (~Arrived(r) /\ loc'[r].op # "none" /\ loc'[r].apiKey # ConfigApiKey)
        => UNCHANGED <<rows, cache, pushSeq>>
C26_DeniedStays(r) ==
    (Arrived(r) /\ loc[r].apiKey # ConfigApiKey)
        => UNCHANGED <<pc[r], result[r], trace[r]>>
C26_BadKeyDenied ==
    /\ [](\A r \in Req : Arrived(r) => C26_Answer(r, loc[r].apiKey))
    /\ [][\A r \in Req : C26_NoEffect(r) /\ C26_DeniedStays(r)]_vars
C26_Witness ==
    \E r, q \in Req :
        /\ Arrived(r) /\ loc[r].apiKey = Str("wrong-key")
        /\ result[r].status = 401 /\ trace[r][1].data.route = "POST /"
        /\ Arrived(q) /\ loc[q].apiKey = Undefined
        /\ result[q].status = 401 /\ trace[q][1].data.route = "GET /recent/:user_id"
        /\ rows = {} /\ pushSeq = 0
\* the claim as it was stated: every key that differs from the configured
\* one, the empty one included, is answered INVALID_API_KEY
C26_AsStated ==
    \A r \in Req :
        Arrived(r)
            => /\ loc[r].apiKey = Undefined
                    => CodeOf(result[r]) = "MISSING_API_KEY" /\ OnlyMiddlewareRan(r)
               /\ (loc[r].apiKey # Undefined /\ loc[r].apiKey # ConfigApiKey)
                    => CodeOf(result[r]) = "INVALID_API_KEY" /\ OnlyMiddlewareRan(r)

(* ============================== C27 ==================================== *)
\* C27: the value parseRawInput returns for rawInput holds nothing but the
\* sections personalInfo, preferences and flags; personalInfo and
\* preferences hold nothing but their recognized sub-fields, each with the
\* value it has in rawInput; flags, when rawInput gives a sequence, is that
\* sequence; every other member of rawInput or of a section is left out and
\* the call still returns; a section rawInput does not have is not in the
\* result.
ParseRawInputCalled == call.fn = "parseRawInput"
Has(o, k) == IsObject(o) /\ k \in DOMAIN o[2]
SectionCopied(raw, parsed, section, fields) ==
    /\ IsObject(Get(raw, section)) => Has(parsed, section)
    /\ Has(parsed, section)
         => /\ IsObject(Get(parsed, section))
            /\ DOMAIN Get(parsed, section)[2] \subseteq fields
            /\ \A f \in fields :
                  Get(Get(parsed, section), f) = Get(Get(raw, section), f)
C27_Projection(raw, parsed) ==
    /\ IsObject(parsed)
    /\ DOMAIN parsed[2] \subseteq {"personalInfo", "preferences", "flags"}
    /\ SectionCopied(raw, parsed, "personalInfo", PersonalInfoFields)
    /\ SectionCopied(raw, parsed, "preferences", PreferencesFields)
    /\ IsArray(Get(raw, "flags")) => Get(parsed, "flags") = Get(raw, "flags")
    /\ \A k \in {"personalInfo", "preferences", "flags"} :
          ~Has(raw, k) => ~Has(parsed, k)
C27_OnlyRecognizedFieldsCopied ==
    ParseRawInputCalled => C27_Projection(call.arg, call.out)
C27_Witness ==
    /\ ParseRawInputCalled
    /\ Has(Get(call.arg, "personalInfo"), "nickname")
    /\ Has(Get(call.arg, "preferences"), "theme")
    /\ Has(call.arg, "extra")
    /\ ~Has(call.arg, "flags")
    /\ Get(Get(call.out, "personalInfo"), "age") = Num(30)
    /\ ~Has(call.out, "flags")

(* ============================== C28 ==================================== *)
\* C28: for every rawInput that reaches parseRawInput, a member flags that
\* is a sequence, the empty one included, is the flags of the result as it
\* is; a member flags that is not a sequence gives the empty sequence; a
\* rawInput without flags gives a result without flags.
C28_Flags(raw, parsed) ==
    /\ Has(raw, "flags")
         => Get(parsed, "flags") = IF IsArray(Get(raw, "flags")) THEN Get(raw, "flags")
                                   ELSE Arr(<<>>)
    /\ ~Has(raw, "flags") => ~Has(parsed, "flags")
C28_FlagsDefaultToEmpty ==
    ParseRawInputCalled => C28_Flags(call.arg, call.out)
C28_Witness ==
    /\ ParseRawInputCalled
    /\ Has(call.arg, "flags") /\ Get(call.arg, "flags") = Arr(<<>>)
    /\ Has(call.out, "flags") /\ Get(call.out, "flags") = Arr(<<>>)

(* ============================== C29 ==================================== *)
\* C29: the external calls of one createSession happen in the order INSERT,
\* scoring call, UPDATE, cache append (LPUSH, LTRIM, EXPIRE), none of them
\* twice; a call is issued only when the one before it has returned: the
\* scoring call after the INSERT succeeded, the UPDATE after the scoring
\* call succeeded, the append after the UPDATE succeeded or failed.
Position(c) ==
    CASE c = "insert" -> 1
      [] c = "score" -> 2
      [] c = "update" -> 3
      [] c \in {"lpush", "exec"} -> 4
      [] c = "ltrim" -> 5
      [] c = "expire" -> 6
      [] OTHER -> 0
LastEvent(r) == trace[r][Len(trace[r])]
Awaits(r, c, ok) ==
    /\ trace[r] # <<>>
    /\ LastEvent(r).call = c
    /\ LastEvent(r).ok \in ok
C29_InOrder(r) ==
    /\ \A i, j \in DOMAIN trace[r] :
          i < j => Position(trace[r][i].call) < Position(trace[r][j].call)
    /\ pc[r] = "insert" => trace[r] = <<>>
    /\ pc[r] = "score" => Awaits(r, "insert", {TRUE})
    /\ pc[r] = "update" => Awaits(r, "score", {TRUE})
    /\ pc[r] = "lpush" => Awaits(r, "update", BOOLEAN)
    /\ Called(r, "score") => Succeeded(r, "insert")
    /\ Called(r, "update") => Succeeded(r, "score")
    /\ AppendAttempted(r) => Called(r, "update")
C29_EffectsInOrder ==
    \A r \in Req : IsCreate(r) => C29_InOrder(r)
C29_Witness ==
    \E r \in Req :
        /\ IsCreate(r) /\ pc[r] = "done"
        /\ Len(trace[r]) = 6
        /\ Failed(r, "update")
        /\ Succeeded(r, "expire")

(* ============================== C30 ==================================== *)
\* C30: when two createSession requests of one user are made at the same
\* time, both are scored and every command of both appends succeeds, then,
\* once both have returned and while the list has not expired, each of the
\* two summaries is in the user's list exactly once, the one whose LPUSH
\* Redis applied later stands before the other, and the list holds at most
\* 10 entries.  The witness is a run in which the second LPUSH met the list
\* before the LTRIM of the first request.
BothAppended(r, q) ==
    /\ r # q
    /\ ScoredAndCached(r) /\ ScoredAndCached(q)
    /\ loc[r].userId = loc[q].userId
    /\ loc[r].createdAt = loc[q].createdAt
    /\ now < loc[r].createdAt + recentSessionsTtl
PlacesOf(r) ==
    LET l == cache[loc[r].userId].list
    IN  {k \in DOMAIN l : JsonParse(l[k].json) = SessionSummary(loc[r])}
C30_BothKept(r, q) ==
    BothAppended(r, q)
        => /\ Cardinality(PlacesOf(r)) = 1
           /\ Cardinality(PlacesOf(q)) = 1
           /\ \A i \in PlacesOf(r), j \in PlacesOf(q) :
                 (i < j) <=> (PushOrd(r) > PushOrd(q))
           /\ Len(cache[loc[r].userId].list) <= recentSessionsLimit
C30_ConcurrentAppendsBothKept ==
    \A r, q \in Req : C30_BothKept(r, q)
C30_Witness ==
    \E r, q \in Req :
        /\ BothAppended(r, q)
        /\ PushOrd(r) < PushOrd(q)
        /\ Len(PushMet(q)) = recentSessionsLimit + 1
        /\ PlacesOf(q) = {1} /\ PlacesOf(r) = {2}

(* ============================== C31 ==================================== *)
\* C31: when addRecentSession completes, with or without an error on one of
\* its three commands, and no other append to the same list ran beside it,
\* the user's list is either as the LPUSH met it or has the push, the
\* truncation to 10 entries and the expiry of 86400 s all applied; and a
\* list that is not empty and has no append in progress has an expiry.
PushEvent(r) == trace[r][CHOOSE i \in Events(r, "lpush") : TRUE]
AllApplied(r) ==
    Expire(LTrim(LPush(PushEvent(r).data.before,
                       Entry(SessionSummary(loc[r]), PushEvent(r).data.ord)),
                 0, recentSessionsLimit - 1),
           recentSessionsTtl, now)
AppendsAlone(r) ==
    \A q \in Req \ {r} : ~(IsCreate(q) /\ loc[q].userId = loc[r].userId)
C31_Completion(r) ==
    (Completes(r) /\ AppendsAlone(r))
        => \/ cache'[loc[r].userId] = PushEvent(r).data.before
           \/ cache'[loc[r].userId] = AllApplied(r)
C31_HasExpiry(u) ==
    (cache[u].list # <<>> /\ ~AppendInProgress(u)) => cache[u].expireAt # NoTtl
C31_AppendAllOrNothing ==
    /\ [](\A u \in Users : C31_HasExpiry(u))
    /\ [][\A r \in Req : C31_Completion(r)]_vars

(* ============================== C32 ==================================== *)
\* C32: a createSession whose INSERT succeeds adds exactly one row, with an
\* id no row had before; no step of createSession, getSessionById or
\* getRecentSessions removes a row or adds one otherwise; no two rows share
\* an id.
Ids(tbl) == {w.id : w \in tbl}
Inserts(r) == pc[r] = "insert" /\ pc'[r] = "score"
C32_InsertAddsOne(r) ==
    Inserts(r)
        => /\ loc[r].sessionId \notin Ids(rows)
           /\ Ids(rows') = Ids(rows) \cup {loc[r].sessionId}
           /\ Cardinality(rows') = Cardinality(rows) + 1
           /\ rows \subseteq rows'
C32_OnlyInsertAdds ==
    /\ Ids(rows) \subseteq Ids(rows')
    /\ Cardinality(rows') >= Cardinality(rows)
    /\ (\A r \in Req : ~Inserts(r)) => Ids(rows') = Ids(rows)
C32_UniqueIds == \A w, v \in rows : w.id = v.id => w = v
C32_RowsOnlyGrow ==
    /\ []C32_UniqueIds
    /\ [][C32_OnlyInsertAdds /\ \A r \in Req : C32_InsertAddsOne(r)]_vars
C32_Witness ==
    \E r, q \in Req :
        /\ IsCreate(r) /\ Succeeded(r, "insert") /\ pc[r] = "done"
        /\ DuplicateInsert(q) /\ loc[q].sessionId = 1
        /\ Cardinality(rows) = recentSessionsLimit + 1
        /\ Ids(rows) = 1..(recentSessionsLimit + 1)

(* ============================== C34 ==================================== *)
\* C34: every summary in a user's list has a row in the table with the
\* summary's id, that user's id and the summary's createdAt.
RowOf(u, summary) ==
    {w \in rows : /\ w.id = summary.id
                  /\ w.userId = u
                  /\ ToISOString(w.createdAt) = summary.createdAt}
C34_CachedSessionsExist ==
    \A u \in Users : \A summary \in Summaries(u) : RowOf(u, summary) # {}
C34_Witness ==
    \E r \in Req :
        /\ IsCreate(r) /\ pc[r] = "done" /\ loc[r].userId = "u2"
        /\ Failed(r, "update") /\ Succeeded(r, "lpush")
        /\ SessionSummary(loc[r]) \in Summaries("u2")
        /\ Cardinality(Summaries("u1")) = recentSessionsLimit
        /\ ticks > 0

(* ============================== C35 ==================================== *)
\* C35: a summary in a user's list carries the score of the row with its id
\* whenever the UPDATE of that session was applied; a summary of a session
\* whose UPDATE failed carries the score the engine answered while the row
\* has none.
Owner(id) == {r \in Req : IsCreate(r) /\ loc[r].sessionId = id /\ Succeeded(r, "insert")}
C35_Agree(summary, w) ==
    IF \E r \in Owner(w.id) : Failed(r, "update")
    THEN /\ w.score = Null
         /\ \A r \in Owner(w.id) : summary.score = Answer(r).score
    ELSE w.score = summary.score
C35_ScoresAgreeUnlessUpdateFailed ==
    \A u \in Users : \A summary \in Summaries(u) :
        \A w \in RowsById(rows, summary.id) : C35_Agree(summary, w)
C35_Witness ==
    \E r \in Req, q \in Req :
        /\ IsCreate(r) /\ pc[r] = "done" /\ Failed(r, "update")
        /\ SessionSummary(loc[r]) \in Summaries(loc[r].userId)
        /\ \E w \in RowsById(rows, loc[r].sessionId) : w.score = Null
        /\ IsCreate(q) /\ pc[q] = "done" /\ Succeeded(q, "update")
        /\ SessionSummary(loc[q]) \in Summaries(loc[q].userId)
        /\ \E w \in RowsById(rows, loc[q].sessionId) : w.score = Num(78)
\* the claim as it was stated: the summary and the row always agree
C35_AsStated ==
    \A u \in Users : \A summary \in Summaries(u) :
        \A w \in RowsById(rows, summary.id) : w.score = summary.score

(* ============================== C33 ==================================== *)
\* C33: the server listens, and accepts a request, only when the
\* runMigrations of its process has completed without an error, with every
\* migration file of the directory recorded; when runMigrations fails the
\* process exits with status 1 and does not listen afterwards.
RunSucceeded == run.pc = "done"
RunFailed == run.pc = "failed"
C33_ListensAfterMigrations ==
    /\ (server.state = "listening" \/ server.served)
          => /\ RunSucceeded
             /\ \A f \in files : EndsWithSql(f) => f \in applied
    /\ RunFailed => (server.state = "exited" /\ server.code = 1 /\ ~server.served)
C33_ExitIsFinal ==
    /\ (server.state = "exited" /\ server'.no = server.no) => server'.state = "exited"
    /\ (server'.served /\ ~server.served) => server.state = "listening"
    /\ (server'.state = "listening" /\ server.state # "listening")
          => (~RunSucceeded /\ RunSucceeded')
C33_StartsAfterMigrations ==
    /\ []C33_ListensAfterMigrations
    /\ [][C33_ExitIsFinal]_vars
C33_Witness ==
    /\ server.state = "exited" /\ server.code = 1 /\ server.no = MaxRuns
    /\ RunFailed
    /\ \E i \in DOMAIN executions :
          /\ executions[i].run < server.no
          /\ executions[i].committed
    /\ \E i \in DOMAIN executions :
          /\ executions[i].run = server.no
          /\ ~executions[i].committed

(* ============================== C36 ==================================== *)
\* C36: over all starts, a migration file whose execution was committed,
\* and with it recorded in the table migrations, is never executed again,
\* so every file is committed at most once; only a file whose transaction
\* was rolled back is executed again, by a later run; within one run the
\* files are executed in ascending order of their names; a run that finds
\* every file recorded executes nothing.
Recorded == {migrations[i] : i \in DOMAIN migrations}
C36_NotAgainOnceCommitted ==
    \A i, j \in DOMAIN executions :
        (i < j /\ executions[i].file = executions[j].file)
            => /\ ~executions[i].committed
               /\ executions[i].run < executions[j].run
C36_Ascending ==
    \A i, j \in DOMAIN executions :
        (i < j /\ executions[i].run = executions[j].run)
            => TextBefore(executions[i].file, executions[j].file)
C36_ExecutesPendingOnly ==
    (executions' # executions /\ Len(executions') > Len(executions))
        => LET e == executions'[Len(executions')]
           IN  /\ e.file \notin Recorded
               /\ e.file \in files /\ EndsWithSql(e.file)
               /\ e.run = server.no
C36_RecordedNeverRunAgain ==
    /\ [](C36_NotAgainOnceCommitted /\ C36_Ascending)
    /\ [][C36_ExecutesPendingOnly]_vars
C36_Witness ==
    /\ server.no = MaxRuns /\ RunSucceeded
    /\ \A i \in DOMAIN executions : executions[i].run < MaxRuns
    /\ \E i, j, k \in DOMAIN executions :
          /\ i < j /\ j < k
          /\ executions[i].file = File10 /\ ~executions[i].committed
          /\ executions[j].file = File10 /\ executions[j].committed
          /\ executions[k].file = File2 /\ executions[k].run = executions[j].run
\* the claim as it was stated: no file is executed more than once
C36_AsStated ==
    /\ \A i, j \in DOMAIN executions :
          executions[i].file = executions[j].file => i = j
    /\ C36_Ascending

(* ============================== C37 ==================================== *)
\* C37: a file is recorded in the table migrations if and only if its SQL
\* was committed, so the statements and the record of a failed migration
\* are rolled back together; after a migration that failed no later file
\* is executed in that run; runMigrations raises the error, so the start
\* is rejected; and when the run has ended, either way, the client has
\* been released and no transaction is left open.
RunsOf(n) == {i \in DOMAIN executions : executions[i].run = n}
FailedMigration ==
    /\ RunFailed
    /\ RunsOf(server.no) # {}
    /\ ~executions[Len(executions)].committed
C37_RecordedIffCommitted == Recorded = applied
C37_StopsAtFailure ==
    \A i, j \in DOMAIN executions :
        (i < j /\ executions[i].run = executions[j].run)
            => executions[i].committed
C37_FailureUndone ==
    FailedMigration
        => /\ executions[Len(executions)].file \notin applied \cup Recorded
           /\ executions[Len(executions)].file = Head(run.pending)
           /\ server.state = "exited"
C37_Released ==
    (RunSucceeded \/ RunFailed)
        => /\ ~tx.open
           /\ run.client # "held"
           /\ (RunsOf(server.no) # {} => run.client = "released")
C37_NothingAfterEnd ==
    (RunSucceeded \/ RunFailed)
        => (run' = run => <<migrations, applied, tx, executions>>' =
                           <<migrations, applied, tx, executions>>)
C37_FailedMigrationRolledBack ==
    /\ [](C37_RecordedIffCommitted /\ C37_StopsAtFailure
            /\ C37_FailureUndone /\ C37_Released)
    /\ [][C37_NothingAfterEnd]_vars
C37_Witness ==
    /\ FailedMigration
    /\ Len(run.pending) >= 2
    /\ run.client = "released"
    /\ \E i \in RunsOf(server.no) : executions[i].committed
    /\ \E i \in DOMAIN migrations : TextBefore(migrations[i], Head(run.pending))

====
